---- MODULE Spec2Model ----
(***************************************************************************)
(* Model of the mini_rdbms storage engine (src/src/database.py).           *)
(*                                                                         *)
(* The persisted state is one JSON document per table.  Every Database     *)
(* method is a read-whole-file / modify / write-whole-file cycle; the      *)
(* model keeps the contents of every file and replays the writes of each   *)
(* method in program order.                                                *)
(*                                                                         *)
(* Python strings are sequences of one-character strings.  Python values   *)
(* are records [k, n, s]: k is the kind ("null", "int", "float", "bool",   *)
(* "str"), n the number (floats are counted in tenths) and s the text.     *)
(* Row positions and column positions are 0-based, as in the code.         *)
(***************************************************************************)
EXTENDS Integers, Sequences, FiniteSets, TLC

VARIABLES files, last

vars == <<files, last>>

----------------------------------------------------------------------------
(* Bounds of the model *)

MaxRows == 2

----------------------------------------------------------------------------
(* Python strings *)

Digits == <<"0", "1", "2", "3", "4", "5", "6", "7", "8", "9">>

IsDigit(c) == \E i \in 1..10 : Digits[i] = c

DigitVal(c) == (CHOOSE i \in 1..10 : Digits[i] = c) - 1

IsSpace(c) == c = " "

RECURSIVE NatToStr(_)
NatToStr(n) == IF n < 10 THEN <<Digits[n + 1]>>
               ELSE NatToStr(n \div 10) \o <<Digits[(n % 10) + 1]>>

IntToStr(n) == IF n < 0 THEN <<"-">> \o NatToStr(0 - n) ELSE NatToStr(n)

RECURSIVE StrToNat(_)
StrToNat(s) == IF s = <<>> THEN 0
               ELSE 10 * StrToNat(SubSeq(s, 1, Len(s) - 1)) + DigitVal(s[Len(s)])

AllDigits(s) == s # <<>> /\ \A i \in 1..Len(s) : IsDigit(s[i])

RECURSIVE LStrip(_)
LStrip(s) == IF s # <<>> /\ IsSpace(Head(s)) THEN LStrip(Tail(s)) ELSE s

RECURSIVE RStrip(_)
RStrip(s) == IF s # <<>> /\ IsSpace(s[Len(s)]) THEN RStrip(SubSeq(s, 1, Len(s) - 1)) ELSE s

Strip(s) == RStrip(LStrip(s))

Contains(s, c) == \E i \in 1..Len(s) : s[i] = c

FirstPos(s, c) == CHOOSE i \in 1..Len(s) : s[i] = c /\ \A j \in 1..(i - 1) : s[j] # c

(* s.split(c, 1) for a string that contains c *)
SplitOnce(s, c) == <<SubSeq(s, 1, FirstPos(s, c) - 1), SubSeq(s, FirstPos(s, c) + 1, Len(s))>>

Quoted(s, q) == s # <<>> /\ Head(s) = q /\ s[Len(s)] = q

(* val[1:-1] when val starts and ends with the same quote character *)
Unquote(s) == IF Quoted(s, "'") \/ Quoted(s, "\"") THEN SubSeq(s, 2, Len(s) - 1) ELSE s

Has(list, x) == \E i \in 1..Len(list) : list[i] = x

----------------------------------------------------------------------------
(* Python values *)

None == [k |-> "null", n |-> 0, s |-> <<>>]
IntV(i) == [k |-> "int", n |-> i, s |-> <<>>]
FloatV(tenths) == [k |-> "float", n |-> tenths, s |-> <<>>]
BoolV(b) == [k |-> "bool", n |-> IF b THEN 1 ELSE 0, s |-> <<>>]
StrV(s) == [k |-> "str", n |-> 0, s |-> s]

IsNum(v) == v.k \in {"int", "float", "bool"}

(* the number a numeric value denotes, in tenths *)
Tenths(v) == IF v.k = "float" THEN v.n ELSE 10 * v.n

(* an equality under which null equals nothing, itself included *)
PyEq_null_distinct(a, b) == IF IsNum(a) /\ IsNum(b) THEN Tenths(a) = Tenths(b)
                            ELSE a.k # "null" /\ a.k = b.k /\ a.s = b.s

(* Python's == on values: numbers compare by value across int/float/bool *)
PyEq(a, b) == IF IsNum(a) /\ IsNum(b) THEN Tenths(a) = Tenths(b)
              ELSE a.k = b.k /\ a.s = b.s

(* repr of a float that has one decimal digit *)
FloatToStr(t) == IF t < 0 THEN <<"-">> \o NatToStr((0 - t) \div 10) \o <<".">> \o NatToStr((0 - t) % 10)
                 ELSE NatToStr(t \div 10) \o <<".">> \o NatToStr(t % 10)

(* str(value) *)
PyStr(v) == CASE v.k = "null" -> <<"N", "o", "n", "e">>
              [] v.k = "int" -> IntToStr(v.n)
              [] v.k = "float" -> FloatToStr(v.n)
              [] v.k = "bool" -> IF v.n = 1 THEN <<"T", "r", "u", "e">> ELSE <<"F", "a", "l", "s", "e">>
              [] OTHER -> v.s

(* the text of an optionally signed integer literal, surrounding blanks allowed *)
IsIntLiteral(s) == LET b == Strip(s)
                   IN  IF b # <<>> /\ Head(b) \in {"-", "+"} THEN AllDigits(Tail(b)) ELSE AllDigits(b)

IntLiteral(s) == LET b == Strip(s)
                 IN  IF Head(b) = "-" THEN 0 - StrToNat(Tail(b))
                     ELSE IF Head(b) = "+" THEN StrToNat(Tail(b))
                     ELSE StrToNat(b)

(* truncation toward zero of a number given in tenths *)
Trunc(t) == IF t < 0 THEN 0 - ((0 - t) \div 10) ELSE t \div 10

(* int(value) succeeds *)
CanInt(v) == CASE v.k = "str" -> IsIntLiteral(v.s)
               [] v.k = "null" -> FALSE
               [] OTHER -> TRUE

(* int(value) *)
PyInt(v) == CASE v.k = "str" -> IntLiteral(v.s)
              [] v.k = "float" -> Trunc(v.n)
              [] OTHER -> v.n

(* the text of a decimal literal with at most one fractional digit *)
IsFloatLiteral(s) ==
    LET b == Strip(s)
        u == IF b # <<>> /\ Head(b) \in {"-", "+"} THEN Tail(b) ELSE b
    IN  IF Contains(u, ".")
        THEN LET p == SplitOnce(u, ".")
             IN  /\ p[1] \o p[2] # <<>>
                 /\ p[1] = <<>> \/ AllDigits(p[1])
                 /\ p[2] = <<>> \/ (AllDigits(p[2]) /\ Len(p[2]) = 1)
        ELSE AllDigits(u)

FloatLiteral(s) ==
    LET b == Strip(s)
        neg == b # <<>> /\ Head(b) = "-"
        u == IF b # <<>> /\ Head(b) \in {"-", "+"} THEN Tail(b) ELSE b
        mag == IF Contains(u, ".")
               THEN LET p == SplitOnce(u, ".") IN 10 * StrToNat(p[1]) + StrToNat(p[2])
               ELSE 10 * StrToNat(u)
    IN  IF neg THEN 0 - mag ELSE mag

(* float(value) succeeds *)
CanFloat(v) == CASE v.k = "str" -> IsFloatLiteral(v.s)
                 [] v.k = "null" -> FALSE
                 [] OTHER -> TRUE

(* float(value), in tenths *)
PyFloat(v) == IF v.k = "str" THEN FloatLiteral(v.s) ELSE Tenths(v)

Lower(c) == CASE c = "T" -> "t" [] c = "F" -> "f" [] c = "Y" -> "y" [] c = "N" -> "n"
              [] c = "R" -> "r" [] c = "U" -> "u" [] c = "E" -> "e" [] c = "A" -> "a"
              [] c = "L" -> "l" [] c = "S" -> "s" [] c = "O" -> "o" [] OTHER -> c

LowerStr(s) == [i \in 1..Len(s) |-> Lower(s[i])]

TrueTokens == {<<"t", "r", "u", "e">>, <<"1">>, <<"y", "e", "s">>, <<"t">>}
FalseTokens == {<<"f", "a", "l", "s", "e">>, <<"0">>, <<"n", "o">>, <<"f">>}

(* round(x, 0): to the nearest integer, halves to the even one; in tenths *)
RoundHalfEven(t) == LET q == t \div 10
                        r == t % 10
                    IN  IF r < 5 THEN 10 * q
                        ELSE IF r > 5 THEN 10 * (q + 1)
                        ELSE IF q % 2 = 0 THEN 10 * q ELSE 10 * (q + 1)

(* a rounding that shifts the decimal point instead *)
PyRound_shifting(t, scale) == 10 * t

(* round(x, scale) of a number that has one decimal digit *)
PyRound(t, scale) == IF scale >= 1 THEN t ELSE RoundHalfEven(t)

(* json.dump's text of a dict key *)
JsonKey(v) == CASE v.k = "null" -> <<"n", "u", "l", "l">>
                [] v.k = "int" -> IntToStr(v.n)
                [] v.k = "float" -> FloatToStr(v.n)
                [] v.k = "bool" -> IF v.n = 1 THEN <<"t", "r", "u", "e">> ELSE <<"f", "a", "l", "s", "e">>
                [] OTHER -> v.s

RECURSIVE SetToSeq(_)
SetToSeq(S) == IF S = {} THEN <<>>
               ELSE LET m == CHOOSE x \in S : \A y \in S : x <= y
                    IN  <<m>> \o SetToSeq(S \ {m})

----------------------------------------------------------------------------
(* Column definitions.  The type is the upper-case tag the parser emits;   *)
(* "VARCHAR" and "DECIMAL" stand for the tags that carry their parameters  *)
(* in type_params.                                                         *)

ColDef(name, type, params, constraints) ==
    [name |-> name, type |-> type, type_params |-> params, constraints |-> constraints]

(* a key test that forgets PRIMARY KEY *)
IsKeyColumn_unique_only(col_def) == Has(col_def.constraints, "UNIQUE")

IsKeyColumn(col_def) == Has(col_def.constraints, "PRIMARY KEY") \/ Has(col_def.constraints, "UNIQUE")

(* a length check that rejects the value instead of cutting it *)
Varchar_rejecting(text, type_params) ==
    IF Len(type_params) > 0 /\ Len(text) > type_params[1]
    THEN [ok |-> FALSE, v |-> StrV(text)]
    ELSE [ok |-> TRUE, v |-> StrV(text)]

(* the VARCHAR branch: value[:max_length] when the text is longer *)
Varchar(text, type_params) ==
    IF Len(type_params) > 0 /\ Len(text) > type_params[1]
    THEN [ok |-> TRUE, v |-> StrV(SubSeq(text, 1, type_params[1]))]
    ELSE [ok |-> TRUE, v |-> StrV(text)]

(* Database._validate_value_type: [ok, v] is the pair (value, success);    *)
(* on failure v is the rejected raw value the message names.               *)
_validate_value_type(value, col_type, type_params) ==
    IF value.k = "null" THEN [ok |-> TRUE, v |-> None]
    ELSE CASE col_type \in {"INT", "INTEGER"} ->
                IF CanInt(value) THEN [ok |-> TRUE, v |-> IntV(PyInt(value))]
                ELSE [ok |-> FALSE, v |-> value]
           [] col_type = "VARCHAR" ->
                Varchar(IF value.k = "str" THEN value.s ELSE PyStr(value), type_params)
           [] col_type = "DECIMAL" ->
                IF CanFloat(value)
                THEN IF Len(type_params) = 2
                     THEN [ok |-> TRUE, v |-> FloatV(PyRound(PyFloat(value), type_params[2]))]
                     ELSE [ok |-> TRUE, v |-> FloatV(PyFloat(value))]
                ELSE [ok |-> FALSE, v |-> value]
           [] col_type \in {"FLOAT", "REAL"} ->
                IF CanFloat(value) THEN [ok |-> TRUE, v |-> FloatV(PyFloat(value))]
                ELSE [ok |-> FALSE, v |-> value]
           [] col_type \in {"BOOLEAN", "BOOL"} ->
                IF value.k = "bool" THEN [ok |-> TRUE, v |-> value]
                ELSE IF value.k = "str"
                THEN IF LowerStr(value.s) \in TrueTokens THEN [ok |-> TRUE, v |-> BoolV(TRUE)]
                     ELSE IF LowerStr(value.s) \in FalseTokens THEN [ok |-> TRUE, v |-> BoolV(FALSE)]
                     ELSE [ok |-> FALSE, v |-> value]
                ELSE [ok |-> TRUE, v |-> BoolV(value.n # 0)]
           [] col_type \in {"DATE", "DATETIME"} -> [ok |-> TRUE, v |-> StrV(PyStr(value))]
           [] OTHER -> [ok |-> TRUE, v |-> StrV(PyStr(value))]

(* Results of the engine's calls: kind is "ok" or the tag of the failure,  *)
(* col the column the message names, n the count a success reports; for a  *)
(* constraint failure of update, n is updated_count when it returned (the  *)
(* rows already replaced in memory, which the message does not report).    *)
Res(kind, n, col) == [kind |-> kind, n |-> n, col |-> col]

Ok(n) == Res("ok", n, <<>>)
Err(kind) == Res(kind, 0, <<>>)
ErrCol(kind, col) == Res(kind, 0, col)

IsError(res) == res.kind # "ok"

(* the first column whose constraint the row violates, as a result; Ok(0) when none *)
RECURSIVE CheckFrom(_, _, _, _, _)
CheckFrom(i, data, row_values, column_defs, exclude_row_index) ==
    IF i > Len(column_defs) THEN Ok(0)
    ELSE LET col_def == column_defs[i]
             value == row_values[i]
         IN  IF Has(col_def.constraints, "NOT NULL") /\ value.k = "null"
             THEN ErrCol("null_constraint", col_def.name)
             ELSE IF /\ IsKeyColumn(col_def)
                     /\ \E r \in 1..Len(data) : /\ (r - 1) # exclude_row_index
                                                /\ PyEq(data[r][i], value)
             THEN ErrCol("unique_constraint", col_def.name)
             ELSE CheckFrom(i + 1, data, row_values, column_defs, exclude_row_index)

(* the constraint check without its UNIQUE / PRIMARY KEY scan *)
_check_constraints_not_null_only(table, row_values, column_defs, exclude_row_index) ==
    IF \E i \in 1..Len(column_defs) :
           Has(column_defs[i].constraints, "NOT NULL") /\ row_values[i].k = "null"
    THEN ErrCol("null_constraint",
                column_defs[CHOOSE i \in 1..Len(column_defs) :
                    /\ Has(column_defs[i].constraints, "NOT NULL") /\ row_values[i].k = "null"
                    /\ \A j \in 1..(i - 1) :
                           ~(Has(column_defs[j].constraints, "NOT NULL") /\ row_values[j].k = "null")].name)
    ELSE Ok(0)

(* the constraint check without its NOT NULL test *)
_check_constraints_unique_only(table, row_values, column_defs, exclude_row_index) ==
    LET repeated(i) == /\ IsKeyColumn(column_defs[i])
                       /\ \E r \in 1..Len(table.data) : /\ (r - 1) # exclude_row_index
                                                        /\ PyEq(table.data[r][i], row_values[i])
    IN  IF \E i \in 1..Len(column_defs) : repeated(i)
        THEN ErrCol("unique_constraint",
                    column_defs[CHOOSE i \in 1..Len(column_defs) :
                                    repeated(i) /\ \A j \in 1..(i - 1) : ~repeated(j)].name)
        ELSE Ok(0)

(* Database._check_constraints; exclude_row_index is -1 for None *)
_check_constraints(table, row_values, column_defs, exclude_row_index) ==
    CheckFrom(1, table.data, row_values, column_defs, exclude_row_index)

----------------------------------------------------------------------------
(* The data directory: files maps the name of every existing table file to *)
(* the document json.load returns for it,                                  *)
(*   [name, columns, column_definitions, data, indexes]                    *)
(* (created_at, a timestamp nothing reads, is left out).  indexes maps a   *)
(* column name to [type, data, column_index]; data maps the JSON text of a *)
(* value to the list of row positions.                                     *)

Put(f, key, v) == [x \in DOMAIN f \cup {key} |-> IF x = key THEN v ELSE f[x]]

(* open(table_file, 'w'); json.dump(table, f) *)
WriteFile(fs, table_name, table) == Put(fs, table_name, table)

(* os.path.exists(table_file) *)
table_exists(fs, table_name) == table_name \in DOMAIN fs

(* position of the column the dict {name: idx} gives for a name, -1 when absent *)
ColumnIndex(column_defs, name) ==
    IF \E i \in 1..Len(column_defs) : column_defs[i].name = name
    THEN (CHOOSE i \in 1..Len(column_defs) :
              /\ column_defs[i].name = name
              /\ \A j \in (i + 1)..Len(column_defs) : column_defs[j].name # name) - 1
    ELSE -1

(* position of the first column of that name (loop with break), -1 when absent *)
FirstColumnIndex(column_defs, name) ==
    IF \E i \in 1..Len(column_defs) : column_defs[i].name = name
    THEN (CHOOSE i \in 1..Len(column_defs) :
              /\ column_defs[i].name = name
              /\ \A j \in 1..(i - 1) : column_defs[j].name # name) - 1
    ELSE -1

(* the row positions, ascending, whose value in column ci is == key *)
PositionsOf(data, ci, key) ==
    SetToSeq({r - 1 : r \in {x \in 1..Len(data) : PyEq(data[x][ci + 1], key)}})

(* the hash index _create_index builds over the rows, as json.dump and     *)
(* json.load leave it: one entry per key text, and of two dict keys with   *)
(* the same text the one inserted last                                     *)
IndexData(data, ci) ==
    LET first == {r \in 1..Len(data) : \A q \in 1..(r - 1) : ~PyEq(data[q][ci + 1], data[r][ci + 1])}
        texts == {JsonKey(data[r][ci + 1]) : r \in first}
    IN  [k \in texts |->
            LET r == CHOOSE x \in first : /\ JsonKey(data[x][ci + 1]) = k
                                          /\ \A y \in first : JsonKey(data[y][ci + 1]) = k => y <= x
            IN  PositionsOf(data, ci, data[r][ci + 1])]

(* an index creation that keeps no other index of the table *)
_create_index_replacing(fs, table_name, column_name, column_index) ==
    IF ~table_exists(fs, table_name) THEN fs
    ELSE LET table_info == fs[table_name]
             ci == IF column_index # -1 THEN column_index
                   ELSE FirstColumnIndex(table_info.column_definitions, column_name)
         IN  IF ci = -1 THEN fs
             ELSE WriteFile(fs, table_name,
                      [table_info EXCEPT !.indexes =
                          [x \in {column_name} |-> [type |-> "hash",
                                                    data |-> IndexData(table_info.data, ci),
                                                    column_index |-> ci]]])

(* Database._create_index; column_index is -1 for None *)
_create_index(fs, table_name, column_name, column_index) ==
    IF ~table_exists(fs, table_name) THEN fs
    ELSE LET table_info == fs[table_name]
             ci == IF column_index # -1 THEN column_index
                   ELSE FirstColumnIndex(table_info.column_definitions, column_name)
         IN  IF ci = -1 THEN fs
             ELSE WriteFile(fs, table_name,
                      [table_info EXCEPT !.indexes =
                          Put(@, column_name, [type |-> "hash",
                                               data |-> IndexData(table_info.data, ci),
                                               column_index |-> ci])])

(* an index for every column, key or not *)
RECURSIVE _create_indexes_for_table_every_column(_, _, _, _)
_create_indexes_for_table_every_column(fs, table_name, column_defs, i) ==
    IF i > Len(column_defs) THEN fs
    ELSE _create_indexes_for_table_every_column(
             _create_index(fs, table_name, column_defs[i].name, i - 1), table_name, column_defs, i + 1)

(* Database._create_indexes_for_table, from column i on *)
RECURSIVE _create_indexes_for_table(_, _, _, _)
_create_indexes_for_table(fs, table_name, column_defs, i) ==
    IF i > Len(column_defs) THEN fs
    ELSE IF IsKeyColumn(column_defs[i])
    THEN _create_indexes_for_table(_create_index(fs, table_name, column_defs[i].name, i - 1),
                                   table_name, column_defs, i + 1)
    ELSE _create_indexes_for_table(fs, table_name, column_defs, i + 1)

RemoveFirst(list, x) ==
    IF Has(list, x)
    THEN LET i == CHOOSE j \in 1..Len(list) : list[j] = x /\ \A q \in 1..(j - 1) : list[q] # x
         IN  SubSeq(list, 1, i - 1) \o SubSeq(list, i + 1, Len(list))
    ELSE list

Without(f, key) == [x \in DOMAIN f \ {key} |-> f[x]]

(* value in index["data"]: the keys of a loaded index are all texts *)
KeyPresent(index_data, value) == value.k = "str" /\ value.s \in DOMAIN index_data

(* Database._update_index: loads the file, edits one index, writes the file *)
_update_index(fs, table_name, column_name, operation, value, row_index) ==
    IF ~table_exists(fs, table_name) THEN fs
    ELSE IF column_name \notin DOMAIN fs[table_name].indexes THEN fs
    ELSE LET table_info == fs[table_name]
             index == table_info.indexes[column_name]
             with(d) == [table_info EXCEPT !.indexes[column_name].data = d]
         IN  CASE operation = "insert" ->
                    WriteFile(fs, table_name,
                        with(IF KeyPresent(index.data, value)
                             THEN [index.data EXCEPT ![value.s] = Append(@, row_index)]
                             ELSE Put(index.data, JsonKey(value), <<row_index>>)))
               [] operation = "update" ->
                    WriteFile(_create_index(fs, table_name, column_name, index.column_index),
                              table_name, table_info)
               [] operation = "delete" ->
                    WriteFile(fs, table_name,
                        with(IF KeyPresent(index.data, value)
                             THEN IF RemoveFirst(index.data[value.s], row_index) = <<>>
                                  THEN Without(index.data, value.s)
                                  ELSE [index.data EXCEPT ![value.s] = RemoveFirst(@, row_index)]
                             ELSE index.data))
               [] OTHER -> WriteFile(fs, table_name, table_info)

----------------------------------------------------------------------------
(* The methods of Database.  Each takes the data directory and returns the *)
(* directory it leaves and the value it returns.                           *)

Out(fs, res) == [files |-> fs, res |-> res]

Letters == {"a", "b", "c", "d", "e", "f", "g", "h", "i", "j", "k", "l", "m",
            "n", "o", "p", "q", "r", "s", "t", "u", "v", "w", "x", "y", "z",
            "A", "B", "C", "D", "E", "F", "G", "H", "I", "J", "K", "L", "M",
            "N", "O", "P", "Q", "R", "S", "T", "U", "V", "W", "X", "Y", "Z"}

(* str.isidentifier() on ASCII text *)
IsIdentifier(s) == /\ s # <<>>
                   /\ Head(s) \in Letters \cup {"_"}
                   /\ \A i \in 1..Len(s) : s[i] \in Letters \cup {"_"} \/ IsDigit(s[i])

EmptyIndexes == [x \in {} |-> 0]

(* a create_table that does not look for the file of the table *)
create_table_overwriting(fs, table_name, columns) ==
    IF ~IsIdentifier(table_name) THEN Out(fs, Err("invalid_table_name"))
    ELSE Out(_create_indexes_for_table(
                 WriteFile(fs, table_name,
                           [name |-> table_name,
                            columns |-> [i \in 1..Len(columns) |-> columns[i].name],
                            column_definitions |-> columns,
                            data |-> <<>>,
                            indexes |-> EmptyIndexes]),
                 table_name, columns, 1),
             Ok(Len(columns)))

(* Database.create_table, for columns given as definition dicts *)
create_table(fs, table_name, columns) ==
    IF ~IsIdentifier(table_name) THEN Out(fs, Err("invalid_table_name"))
    ELSE IF table_exists(fs, table_name) THEN Out(fs, Err("table_already_exists"))
    ELSE LET table == [name |-> table_name,
                       columns |-> [i \in 1..Len(columns) |-> columns[i].name],
                       column_definitions |-> columns,
                       data |-> <<>>,
                       indexes |-> EmptyIndexes]
         IN  Out(_create_indexes_for_table(WriteFile(fs, table_name, table), table_name, columns, 1),
                 Ok(Len(columns)))

(* the _update_index calls insert makes for the key columns, from column i on *)
RECURSIVE InsertIndexUpdates(_, _, _, _, _, _)
InsertIndexUpdates(fs, table_name, column_defs, typed_values, new_row_index, i) ==
    IF i > Len(column_defs) THEN fs
    ELSE IF IsKeyColumn(column_defs[i])
    THEN InsertIndexUpdates(
             _update_index(fs, table_name, column_defs[i].name, "insert", typed_values[i], new_row_index),
             table_name, column_defs, typed_values, new_row_index, i + 1)
    ELSE InsertIndexUpdates(fs, table_name, column_defs, typed_values, new_row_index, i + 1)

(* a count test that lets surplus values through *)
ColumnCountMismatch_fewer_only(values, column_defs) == Len(values) < Len(column_defs)

(* the column count test of insert: received_values != expected_columns *)
ColumnCountMismatch(values, column_defs) == Len(values) # Len(column_defs)

(* the new row put in front of the others *)
AppendRow_in_front(data, typed_values) == <<typed_values>> \o data

(* table["data"].append(typed_values) *)
AppendRow(data, typed_values) == Append(data, typed_values)

(* zip(values, column_defs) stops at the shorter of the two *)
Zipped(values, column_defs) == 1..(IF Len(values) < Len(column_defs) THEN Len(values) ELSE Len(column_defs))

(* Database.insert *)
insert(fs, table_name, values) ==
    IF ~table_exists(fs, table_name) THEN Out(fs, Err("table_not_found"))
    ELSE LET table == fs[table_name]
             column_defs == table.column_definitions
         IN  IF ColumnCountMismatch(values, column_defs) THEN Out(fs, Err("column_count_mismatch"))
             ELSE LET validated == [i \in Zipped(values, column_defs) |->
                                       _validate_value_type(values[i], column_defs[i].type,
                                                            column_defs[i].type_params)]
                      typed_values == [i \in Zipped(values, column_defs) |-> validated[i].v]
                      constraint_error == _check_constraints(table, typed_values, column_defs, -1)
                  IN  IF \E i \in DOMAIN validated : ~validated[i].ok
                      THEN Out(fs, ErrCol("type_conversion",
                               column_defs[CHOOSE i \in DOMAIN validated :
                                   ~validated[i].ok /\ \A j \in 1..(i - 1) : validated[j].ok].name))
                      ELSE IF IsError(constraint_error) THEN Out(fs, constraint_error)
                      ELSE LET new_row_index == Len(table.data)
                               appended == [table EXCEPT !.data = AppendRow(@, typed_values)]
                           IN  Out(WriteFile(InsertIndexUpdates(fs, table_name, column_defs,
                                                                typed_values, new_row_index, 1),
                                             table_name, appended),
                                   Ok(1))

(* Database.select_all: found is FALSE for the None it returns without a table *)
Rows(found, rows) == [found |-> found, rows |-> rows]

select_all(fs, table_name) ==
    IF ~table_exists(fs, table_name) THEN Rows(FALSE, <<>>)
    ELSE Rows(TRUE, fs[table_name].data)

(* a WHERE clause is [none, s]: none for Python's None, else the text s *)
NoWhere == [none |-> TRUE, s |-> <<>>]
Where(s) == [none |-> FALSE, s |-> s]

(* not where_clause *)
Falsy(where_clause) == where_clause.none \/ where_clause.s = <<>>

(* where_clause.split('=', 1): column name stripped, value stripped and unquoted *)
WhereColumn(s) == Strip(SplitOnce(s, "=")[1])
WhereValue(s) == Unquote(Strip(SplitOnce(s, "=")[2]))

(* Database._use_index_for_where: usable is FALSE for the None it returns *)
_use_index_for_where(fs, table_name, where_clause) ==
    IF Falsy(where_clause) \/ ~Contains(where_clause.s, "=") THEN [usable |-> FALSE, rows |-> <<>>]
    ELSE LET col_name == WhereColumn(where_clause.s)
             val == WhereValue(where_clause.s)
         IN  IF ~table_exists(fs, table_name) \/ col_name \notin DOMAIN fs[table_name].indexes
             THEN [usable |-> FALSE, rows |-> <<>>]
             ELSE LET data == fs[table_name].indexes[col_name].data
                  IN  IF val \in DOMAIN data THEN [usable |-> TRUE, rows |-> data[val]]
                      ELSE [usable |-> TRUE, rows |-> <<>>]

(* the rows, in order, whose positions 1..Len(data) satisfy keep *)
RECURSIVE KeepRows(_, _, _)
KeepRows(data, keep, r) ==
    IF r > Len(data) THEN <<>>
    ELSE IF r \in keep THEN <<data[r]>> \o KeepRows(data, keep, r + 1)
    ELSE KeepRows(data, keep, r + 1)

(* a row test that compares the typed value with the text *)
RowMatches_typed(row_value, val) == PyEq(row_value, StrV(val))

(* the row test of the scans: str(row[col]) == str(val), val a text *)
RowMatches(row_value, val) == PyStr(row_value) = val

(* a scan that finds no row when the table has no column of that name *)
_select_with_where_scan_strict(table, where_clause) ==
    IF Falsy(where_clause) \/ ~Contains(where_clause.s, "=") THEN table.data
    ELSE LET col_name == WhereColumn(where_clause.s)
             val == WhereValue(where_clause.s)
             col_index == FirstColumnIndex(table.column_definitions, col_name)
         IN  IF col_index = -1 THEN <<>>
             ELSE KeepRows(table.data,
                           {r \in 1..Len(table.data) : RowMatches(table.data[r][col_index + 1], val)}, 1)

(* Database._select_with_where_scan *)
_select_with_where_scan(table, where_clause) ==
    IF Falsy(where_clause) \/ ~Contains(where_clause.s, "=") THEN table.data
    ELSE LET col_name == WhereColumn(where_clause.s)
             val == WhereValue(where_clause.s)
             col_index == FirstColumnIndex(table.column_definitions, col_name)
         IN  IF col_index = -1 THEN table.data
             ELSE KeepRows(table.data,
                           {r \in 1..Len(table.data) : RowMatches(table.data[r][col_index + 1], val)}, 1)

(* Database.select_with_where *)
select_with_where(fs, table_name, where_clause) ==
    IF ~table_exists(fs, table_name) THEN Rows(FALSE, <<>>)
    ELSE LET table == fs[table_name]
             indexed_rows == _use_index_for_where(fs, table_name, where_clause)
         IN  IF Falsy(where_clause) THEN Rows(TRUE, table.data)
             ELSE IF indexed_rows.usable
             THEN Rows(TRUE, LET hits == indexed_rows.rows
                                 valid == {i \in 1..Len(hits) : hits[i] < Len(table.data)}
                                 pick == KeepRows(hits, valid, 1)
                             IN  [i \in 1..Len(pick) |-> table.data[pick[i] + 1]])
             ELSE Rows(TRUE, _select_with_where_scan(table, where_clause))

(* updates is the dict of update, as the sequence of its <<column, value>> items *)

(* the items checked for their column only, not for their type *)
FirstBadUpdate_columns_only(updates, column_defs) ==
    IF \E i \in 1..Len(updates) : ColumnIndex(column_defs, updates[i][1]) = -1
    THEN CHOOSE i \in 1..Len(updates) :
             /\ ColumnIndex(column_defs, updates[i][1]) = -1
             /\ \A j \in 1..(i - 1) : ColumnIndex(column_defs, updates[j][1]) # -1
    ELSE 0

(* the first item of updates that update rejects before it touches a row, 0 when none *)
FirstBadUpdate(updates, column_defs) ==
    LET bad(i) == \/ ColumnIndex(column_defs, updates[i][1]) = -1
                  \/ LET c == column_defs[ColumnIndex(column_defs, updates[i][1]) + 1]
                     IN  ~_validate_value_type(updates[i][2], c.type, c.type_params).ok
    IN  IF \E i \in 1..Len(updates) : bad(i)
        THEN CHOOSE i \in 1..Len(updates) : bad(i) /\ \A j \in 1..(i - 1) : ~bad(j)
        ELSE 0

(* update_info: for every item its (col_idx, col_def, validated_value) *)
UpdateInfo(updates, column_defs) ==
    [i \in 1..Len(updates) |->
        LET col_idx == ColumnIndex(column_defs, updates[i][1])
            col_def == column_defs[col_idx + 1]
        IN  [col_idx |-> col_idx, col_def |-> col_def,
             new_val |-> _validate_value_type(updates[i][2], col_def.type, col_def.type_params).v]]

(* updated_row after the first i items of update_info are applied to row *)
RECURSIVE ApplyUpdates(_, _, _)
ApplyUpdates(row, update_info, i) ==
    IF i = 0 THEN row
    ELSE [ApplyUpdates(row, update_info, i - 1) EXCEPT ![update_info[i].col_idx + 1] = update_info[i].new_val]

(* the _update_index calls update makes for one matched row, from item i on *)
RECURSIVE UpdateIndexUpdates(_, _, _, _, _)
UpdateIndexUpdates(fs, table_name, update_info, row_idx, i) ==
    IF i > Len(update_info) THEN fs
    ELSE IF IsKeyColumn(update_info[i].col_def)
    THEN UpdateIndexUpdates(
             _update_index(fs, table_name, update_info[i].col_def.name, "update",
                           update_info[i].new_val, row_idx),
             table_name, update_info, row_idx, i + 1)
    ELSE UpdateIndexUpdates(fs, table_name, update_info, row_idx, i + 1)

(* an update that saves the rows replaced so far before it reports the violation *)
AbandonUpdate_saving(fs, table_name, table) == WriteFile(fs, table_name, table)

(* return constraint_error: update returns without writing the document in memory *)
AbandonUpdate(fs, table_name, table) == fs

(* the row loop of update from row r (1-based) on: table is the document in *)
(* memory, fs the directory, updated_count the rows replaced so far        *)
RECURSIVE UpdateRows(_, _, _, _, _, _, _)
UpdateRows(fs, table_name, table, update_info, where_clause, updated_count, r) ==
    IF r > Len(table.data) THEN Out(WriteFile(fs, table_name, table), Ok(updated_count))
    ELSE IF ~Falsy(where_clause) /\ ~Contains(where_clause.s, "=")
    THEN Out(fs, Err("malformed_predicate"))
    ELSE IF /\ ~Falsy(where_clause)
            /\ ColumnIndex(table.column_definitions, WhereColumn(where_clause.s)) = -1
    THEN Out(fs, ErrCol("where_column_not_found", WhereColumn(where_clause.s)))
    ELSE LET row == table.data[r]
             should_update ==
                 \/ Falsy(where_clause)
                 \/ RowMatches(row[ColumnIndex(table.column_definitions, WhereColumn(where_clause.s)) + 1],
                               WhereValue(where_clause.s))
         IN  IF ~should_update
             THEN UpdateRows(fs, table_name, table, update_info, where_clause, updated_count, r + 1)
             ELSE LET updated_row == ApplyUpdates(row, update_info, Len(update_info))
                      indexed == UpdateIndexUpdates(fs, table_name, update_info, r - 1, 1)
                      constraint_error == _check_constraints(table, updated_row,
                                                             table.column_definitions, r - 1)
                  IN  IF IsError(constraint_error)
                      THEN Out(AbandonUpdate(indexed, table_name, table),
                               [constraint_error EXCEPT !.n = updated_count])
                      ELSE UpdateRows(indexed, table_name, [table EXCEPT !.data[r] = updated_row],
                                      update_info, where_clause, updated_count + 1, r + 1)

(* Database.update *)
update(fs, table_name, updates, where_clause) ==
    IF ~table_exists(fs, table_name) THEN Out(fs, Err("table_not_found"))
    ELSE LET table == fs[table_name]
             column_defs == table.column_definitions
             bad == FirstBadUpdate(updates, column_defs)
         IN  IF bad # 0
             THEN IF ColumnIndex(column_defs, updates[bad][1]) = -1
                  THEN Out(fs, ErrCol("column_not_found", updates[bad][1]))
                  ELSE Out(fs, ErrCol("type_conversion", updates[bad][1]))
             ELSE UpdateRows(fs, table_name, table, UpdateInfo(updates, column_defs),
                             where_clause, 0, 1)

(* the _update_index calls delete makes for one removed row, from column i on *)
RECURSIVE DeleteIndexUpdates(_, _, _, _, _, _)
DeleteIndexUpdates(fs, table_name, table, row, row_idx, i) ==
    IF i > Len(table.column_definitions) THEN fs
    ELSE IF table.column_definitions[i].name \in DOMAIN table.indexes
    THEN DeleteIndexUpdates(
             _update_index(fs, table_name, table.column_definitions[i].name, "delete", row[i], row_idx),
             table_name, table, row, row_idx, i + 1)
    ELSE DeleteIndexUpdates(fs, table_name, table, row, row_idx, i + 1)

(* the row loop of delete from row r (1-based) on *)
RECURSIVE DeleteRows(_, _, _, _, _, _)
DeleteRows(fs, table_name, table, col_idx, val, r) ==
    IF r > Len(table.data) THEN fs
    ELSE IF RowMatches(table.data[r][col_idx + 1], val)
    THEN DeleteRows(DeleteIndexUpdates(fs, table_name, table, table.data[r], r - 1, 1),
                    table_name, table, col_idx, val, r + 1)
    ELSE DeleteRows(fs, table_name, table, col_idx, val, r + 1)

(* a filter that drops only the first of the matching rows *)
RemainingRows_first_only(data, gone) ==
    IF gone = {} THEN data
    ELSE KeepRows(data, (1..Len(data)) \ {CHOOSE r \in gone : \A q \in gone : r <= q}, 1)

(* new_data of delete: the rows, in order, that the predicate does not match *)
RemainingRows(data, gone) == KeepRows(data, (1..Len(data)) \ gone, 1)

(* a clearing that removes the indexes themselves *)
ClearIndexes_dropping(indexes) == EmptyIndexes

(* delete without WHERE: table["indexes"][col_name]["data"] = {} for every index *)
ClearIndexes(indexes) == [c \in DOMAIN indexes |-> [indexes[c] EXCEPT !.data = EmptyIndexes]]

(* Database.delete *)
delete(fs, table_name, where_clause) ==
    IF ~table_exists(fs, table_name) THEN Out(fs, Err("table_not_found"))
    ELSE LET table == fs[table_name]
         IN  IF where_clause.none
             THEN Out(WriteFile(fs, table_name,
                          [table EXCEPT !.data = <<>>, !.indexes = ClearIndexes(@)]),
                      Ok(Len(table.data)))
             ELSE IF ~Contains(where_clause.s, "=") THEN Out(fs, Err("malformed_predicate"))
             ELSE LET col_name == WhereColumn(where_clause.s)
                      val == WhereValue(where_clause.s)
                      col_idx == ColumnIndex(table.column_definitions, col_name)
                  IN  IF col_idx = -1 THEN Out(fs, ErrCol("where_column_not_found", col_name))
                      ELSE LET gone == {r \in 1..Len(table.data) : RowMatches(table.data[r][col_idx + 1], val)}
                               new_data == RemainingRows(table.data, gone)
                           IN  Out(WriteFile(DeleteRows(fs, table_name, table, col_idx, val, 1),
                                             table_name, [table EXCEPT !.data = new_data]),
                                   Ok(Cardinality(gone)))

(* a drop_table that reports success and leaves the file *)
drop_table_keeping_file(fs, table_name) ==
    IF ~table_exists(fs, table_name) THEN Out(fs, Err("table_not_found"))
    ELSE Out(fs, Ok(0))

(* Database.drop_table *)
drop_table(fs, table_name) ==
    IF ~table_exists(fs, table_name) THEN Out(fs, Err("table_not_found"))
    ELSE Out(Without(fs, table_name), Ok(0))

(* Database.list_tables *)
list_tables(fs) == DOMAIN fs

(* Database.create_index *)
create_index(fs, table_name, column_name) ==
    IF ~table_exists(fs, table_name) THEN Out(fs, Err("table_not_found"))
    ELSE LET column_defs == fs[table_name].column_definitions
             col_index == FirstColumnIndex(column_defs, column_name)
         IN  IF column_defs = <<>> THEN Out(fs, Err("no_column_definitions"))
             ELSE IF col_index = -1 THEN Out(fs, ErrCol("column_not_found", column_name))
             ELSE Out(_create_index(fs, table_name, column_name, col_index), Ok(0))

(* Database.show_indexes *)
show_indexes(fs, table_name) == fs[table_name].indexes

(* Database.count_rows *)
count_rows(fs, table_name) == IF table_exists(fs, table_name) THEN Len(fs[table_name].data) ELSE -1

----------------------------------------------------------------------------
(* The calls the model makes *)

T == <<"t">>
ID == <<"i", "d">>
N == <<"n">>
ZZ == <<"z", "z">>

TableNames == {T}

(* id INT PRIMARY KEY, n VARCHAR(1) NOT NULL *)
SchemaPK == <<ColDef(ID, "INT", <<>>, <<"PRIMARY KEY">>),
              ColDef(N, "VARCHAR", <<1>>, <<"NOT NULL">>)>>

(* id INT, n VARCHAR(1) UNIQUE *)
SchemaUQ == <<ColDef(ID, "INT", <<>>, <<>>),
              ColDef(N, "VARCHAR", <<1>>, <<"UNIQUE">>)>>

Schemas == {SchemaPK, SchemaUQ}

CreateNames == {T, <<"2", "t">>}

InsertValues == {<<IntV(1), StrV(<<"a">>)>>,
                 <<IntV(2), StrV(<<"a">>)>>,
                 <<StrV(<<"1">>), StrV(<<"b">>)>>,
                 <<IntV(2), StrV(<<"b", "a">>)>>,
                 <<IntV(1), None>>,
                 <<StrV(<<"a">>), StrV(<<"a">>)>>,
                 <<IntV(1)>>,
                 <<IntV(1), StrV(<<"a">>), IntV(2)>>}

WhereClauses == {NoWhere,
                 Where(<<"i", "d", "=", "1">>),
                 Where(<<"n", " ", "=", " ", "'", "a", "'">>),
                 Where(<<"n", "=", "b">>),
                 Where(<<"z", "z", "=", "1">>),
                 Where(<<"i", "d">>)}

(* the <<updates, where_clause>> pairs of the update calls *)
UpdateCalls == {<<<<<<N, StrV(<<"b">>)>>>>, Where(<<"i", "d", "=", "1">>)>>,
                <<<<<<N, StrV(<<"b">>)>>>>, NoWhere>>,
                <<<<<<ID, IntV(2)>>>>, NoWhere>>,
                <<<<<<ID, IntV(1)>>>>, Where(<<"n", " ", "=", " ", "'", "a", "'">>)>>,
                <<<<<<N, None>>>>, Where(<<"n", "=", "b">>)>>,
                <<<<<<N, StrV(<<"a">>)>>, <<ID, StrV(<<"a">>)>>>>, NoWhere>>,
                <<<<<<ID, StrV(<<"2">>)>>, <<N, StrV(<<"a", "b">>)>>>>, Where(<<"n", "=", "b">>)>>,
                <<<<<<ZZ, IntV(1)>>>>, NoWhere>>,
                <<<<<<N, StrV(<<"b">>)>>>>, Where(<<"z", "z", "=", "1">>)>>,
                <<<<<<N, StrV(<<"b">>)>>>>, Where(<<"i", "d">>)>>}

DeleteClauses == WhereClauses \cup {Where(<<>>)}

IndexColumns == {N, ZZ}

(* last records the latest call: the method, its arguments and its result *)
Args(table_name, columns, values, updates, where_clause, column_name) ==
    [table_name |-> table_name, columns |-> columns, values |-> values,
     updates |-> updates, where_clause |-> where_clause, column_name |-> column_name]

Call(op, args, res) == [op |-> op, args |-> args, res |-> res]

Init == /\ files = [x \in {} |-> 0]
        /\ last = Call("init", Args(<<>>, <<>>, <<>>, <<>>, NoWhere, <<>>), Ok(0))

(* the tables hold at most MaxRows rows *)
Bounded(fs) == \A t \in DOMAIN fs : Len(fs[t].data) <= MaxRows

Do(op, args, out) == LET o == out
                     IN  /\ Bounded(o.files)
                         /\ files' = o.files
                         /\ last' = Call(op, args, o.res)

CreateTable(t, columns) ==
    Do("create_table", Args(t, columns, <<>>, <<>>, NoWhere, <<>>), create_table(files, t, columns))

Insert(t, values) ==
    Do("insert", Args(t, <<>>, values, <<>>, NoWhere, <<>>), insert(files, t, values))

Update(t, updates, where_clause) ==
    Do("update", Args(t, <<>>, <<>>, updates, where_clause, <<>>), update(files, t, updates, where_clause))

Delete(t, where_clause) ==
    Do("delete", Args(t, <<>>, <<>>, <<>>, where_clause, <<>>), delete(files, t, where_clause))

DropTable(t) ==
    Do("drop_table", Args(t, <<>>, <<>>, <<>>, NoWhere, <<>>), drop_table(files, t))

CreateIndex(t, column_name) ==
    Do("create_index", Args(t, <<>>, <<>>, <<>>, NoWhere, column_name), create_index(files, t, column_name))

Next == \/ \E t \in CreateNames, columns \in Schemas : CreateTable(t, columns)
        \/ \E t \in TableNames, values \in InsertValues : Insert(t, values)
        \/ \E t \in TableNames, u \in UpdateCalls : Update(t, u[1], u[2])
        \/ \E t \in TableNames, w \in DeleteClauses : Delete(t, w)
        \/ \E t \in TableNames : DropTable(t)
        \/ \E t \in TableNames, c \in IndexColumns : CreateIndex(t, c)

Spec == Init /\ [][Next]_vars

----------------------------------------------------------------------------
(* Properties *)

KeyColumns(table) == {i \in 1..Len(table.column_definitions) : IsKeyColumn(table.column_definitions[i])}

(* the row positions (0-based) of a table that hold a value whose JSON text is key in column ci *)
Holders(table, ci, key) == {r - 1 : r \in {x \in 1..Len(table.data) : JsonKey(table.data[x][ci + 1]) = key}}

Elements(list) == {list[i] : i \in 1..Len(list)}

(* C1: in every reachable state each index of each table maps every value  *)
(* to exactly the row positions that hold that value in the indexed        *)
(* column: no position is missing and none is stale.                       *)
C1_IndexMirrorsRows ==
    \A t \in DOMAIN files : \A c \in DOMAIN files[t].indexes :
        LET table == files[t]
            index == table.indexes[c]
        IN  /\ \A key \in DOMAIN index.data :
                   Elements(index.data[key]) = Holders(table, index.column_index, key)
            /\ \A r \in 1..Len(table.data) :
                   JsonKey(table.data[r][index.column_index + 1]) \in DOMAIN index.data

(* the predicate texts "column=value" the selects are tried with *)
PredicateValues == {<<"1">>, <<"2">>, <<"a">>, <<"b">>, <<"N", "o", "n", "e">>}

Equality(column, value) == Where(column \o <<"=">> \o value)

(* C2: for every column that has an index, select_with_where with an       *)
(* equality predicate on that column returns exactly the rows a full scan  *)
(* with the same predicate returns.                                        *)
C2_IndexedSelectEqualsScan ==
    \A t \in DOMAIN files : \A c \in DOMAIN files[t].indexes : \A v \in PredicateValues :
        select_with_where(files, t, Equality(c, v)).rows
            = _select_with_where_scan(files[t], Equality(c, v))

(* C3: no table holds two rows with equal non-null values in a column      *)
(* whose constraints include UNIQUE or PRIMARY KEY.                        *)
C3_KeyValuesDistinct ==
    \A t \in DOMAIN files : \A i \in KeyColumns(files[t]) :
        \A r1, r2 \in 1..Len(files[t].data) :
            (r1 # r2 /\ files[t].data[r1][i].k # "null" /\ files[t].data[r2][i].k # "null")
                => ~PyEq(files[t].data[r1][i], files[t].data[r2][i])

(* a successful update left two rows in a table that has a key column *)
C3_Witness ==
    /\ last.op = "update" /\ last.res.kind = "ok" /\ last.res.n >= 1
    /\ \E t \in DOMAIN files : KeyColumns(files[t]) # {} /\ Len(files[t].data) >= 2

(* the call that led to the next state: its method, table and result *)
Called(op) == last'.op = op /\ table_exists(files, last'.args.table_name)

Before == files[last'.args.table_name]
After == files'[last'.args.table_name]

(* some row of the table holds, in PRIMARY KEY column i, a value == values[i] *)
DuplicatesPrimaryKey(table, values) ==
    \E i \in 1..Len(table.column_definitions) :
        /\ Has(table.column_definitions[i].constraints, "PRIMARY KEY")
        /\ i <= Len(values)
        /\ \E r \in 1..Len(table.data) : PyEq(table.data[r][i], values[i])

(* C4: an insert whose value for a PRIMARY KEY column equals the value     *)
(* some row already holds returns an error and leaves the rows and the     *)
(* indexes of the table as they were.                                      *)
C4_DuplicatePrimaryKeyRejected ==
    [][(Called("insert") /\ DuplicatesPrimaryKey(Before, last'.args.values))
          => (IsError(last'.res) /\ files' = files)]_vars

(* an insert of a primary key value that a row holds was rejected as a duplicate *)
C4_Witness ==
    /\ last.op = "insert" /\ last.res.kind = "unique_constraint"
    /\ table_exists(files, last.args.table_name)
    /\ DuplicatesPrimaryKey(files[last.args.table_name], last.args.values)

(* C5: an insert whose number of values differs from the number of columns *)
(* of the table, fewer or more, returns an error and leaves the row count  *)
(* unchanged.                                                              *)
C5_WrongColumnCountRejected ==
    [][(Called("insert") /\ Len(last'.args.values) # Len(Before.column_definitions))
          => (/\ IsError(last'.res)
              /\ table_exists(files', last'.args.table_name)
              /\ Len(After.data) = Len(Before.data))]_vars

(* an insert of more values than columns into a table that holds a row was rejected *)
C5_Witness ==
    /\ last.op = "insert" /\ last.res.kind = "column_count_mismatch"
    /\ table_exists(files, last.args.table_name)
    /\ Len(last.args.values) > Len(files[last.args.table_name].column_definitions)
    /\ Len(files[last.args.table_name].data) >= 1

----------------------------------------------------------------------------
(* The arguments of the call that led to the next state *)

Coerced(col_def, value) == _validate_value_type(value, col_def.type, col_def.type_params)

(* the positions a value list shares with the columns *)
Aligned(table, values) ==
    {i \in 1..Len(table.column_definitions) : i <= Len(values)}

(* the columns whose supplied value insert cannot coerce *)
UncoercibleValues(table, values) ==
    {i \in Aligned(table, values) : ~Coerced(table.column_definitions[i], values[i]).ok}

HasColumn(table, name) == \E i \in 1..Len(table.column_definitions) : table.column_definitions[i].name = name

ColumnNamed(table, name) == CHOOSE i \in 1..Len(table.column_definitions) : table.column_definitions[i].name = name

(* the items of an update whose column exists and whose value cannot be coerced *)
UncoercibleItems(table, updates) ==
    {k \in 1..Len(updates) :
        /\ HasColumn(table, updates[k][1])
        /\ ~Coerced(table.column_definitions[ColumnNamed(table, updates[k][1])], updates[k][2]).ok}

AllColumnsExist(table, updates) == \A k \in 1..Len(updates) : HasColumn(table, updates[k][1])

(* C6: an insert or update in which a supplied value cannot be coerced to  *)
(* the type of its column returns an error and leaves every row and index  *)
(* unchanged, even when the other values are valid; the error is the       *)
(* type-conversion error when the value count matches (insert) and every   *)
(* SET column exists (update).                                             *)
C6_UncoercibleValueRejected ==
    [][/\ (Called("insert") /\ UncoercibleValues(Before, last'.args.values) # {})
            => /\ IsError(last'.res) /\ files' = files
               /\ Len(last'.args.values) = Len(Before.column_definitions)
                      => last'.res.kind = "type_conversion"
       /\ (Called("update") /\ UncoercibleItems(Before, last'.args.updates) # {})
            => /\ IsError(last'.res) /\ files' = files
               /\ AllColumnsExist(Before, last'.args.updates)
                      => last'.res.kind = "type_conversion"]_vars

(* an update of two columns, the first value valid and the second not, was *)
(* rejected on a table that holds a row                                    *)
C6_Witness ==
    /\ last.op = "update" /\ last.res.kind = "type_conversion"
    /\ table_exists(files, last.args.table_name)
    /\ Len(files[last.args.table_name].data) >= 1
    /\ Len(last.args.updates) = 2
    /\ UncoercibleItems(files[last.args.table_name], last.args.updates) = {2}

(* the rows (1-based) an update or delete with this WHERE clause addresses: *)
(* all rows without a clause, else those whose column has the text of the  *)
(* value as its string form                                                *)
Addressed(table, where_clause) ==
    IF Falsy(where_clause) THEN 1..Len(table.data)
    ELSE IF ~Contains(where_clause.s, "=") THEN {}
    ELSE IF ~HasColumn(table, WhereColumn(where_clause.s)) THEN {}
    ELSE {r \in 1..Len(table.data) :
             PyStr(table.data[r][ColumnNamed(table, WhereColumn(where_clause.s))])
                 = WhereValue(where_clause.s)}

(* the WHERE clause is absent or a column = value test on a column of the table *)
WellFormed(table, where_clause) ==
    \/ Falsy(where_clause)
    \/ Contains(where_clause.s, "=") /\ HasColumn(table, WhereColumn(where_clause.s))

(* every SET column exists and every SET value can be coerced *)
ValidUpdates(table, updates) ==
    AllColumnsExist(table, updates) /\ UncoercibleItems(table, updates) = {}

(* the row an update puts in the place of row: the SET columns replaced by *)
(* the coerced values, the other columns kept                              *)
Replacement(table, updates, row) ==
    [i \in 1..Len(row) |->
        IF \E k \in 1..Len(updates) : updates[k][1] = table.column_definitions[i].name
        THEN Coerced(table.column_definitions[i],
                     updates[CHOOSE k \in 1..Len(updates) :
                                 updates[k][1] = table.column_definitions[i].name][2]).v
        ELSE row[i]]

NotNullColumns(table) ==
    {i \in 1..Len(table.column_definitions) : Has(table.column_definitions[i].constraints, "NOT NULL")}

(* the key columns in which the row repeats the value of another row than exclude *)
RepeatedKeys(table, row, exclude) ==
    {i \in KeyColumns(table) : \E r \in 1..Len(table.data) : r # exclude /\ PyEq(table.data[r][i], row[i])}

NullsInNotNull(table, row) == {i \in NotNullColumns(table) : row[i].k = "null"}

(* no row holds null in a NOT NULL column *)
NoNullInNotNull(fs) ==
    \A t \in DOMAIN fs : \A r \in 1..Len(fs[t].data) : NullsInNotNull(fs[t], fs[t].data[r]) = {}

ColumnTypes == {"INT", "INTEGER", "VARCHAR", "TEXT", "STRING", "DECIMAL", "NUMERIC",
                "FLOAT", "REAL", "BOOLEAN", "BOOL", "DATE", "DATETIME"}

TypeParams == {<<>>, <<1>>, <<2, 1>>}

(* the row an insert of these values would store *)
InsertedRow(table, values) == [i \in 1..Len(values) |-> Coerced(table.column_definitions[i], values[i]).v]

(* an insert of as many values as columns, all coercible, with null for a NOT NULL column *)
InsertsNull(table, values) ==
    /\ Len(values) = Len(table.column_definitions)
    /\ UncoercibleValues(table, values) = {}
    /\ NullsInNotNull(table, InsertedRow(table, values)) # {}

(* an update with valid SET items and a well-formed WHERE clause that sets *)
(* a NOT NULL column of some addressed row to null                         *)
UpdatesToNull(table, updates, where_clause) ==
    /\ ValidUpdates(table, updates)
    /\ WellFormed(table, where_clause)
    /\ \E r \in Addressed(table, where_clause) :
           NullsInNotNull(table, Replacement(table, updates, table.data[r])) # {}

FirstAddressed(table, where_clause) ==
    CHOOSE r \in Addressed(table, where_clause) : \A q \in Addressed(table, where_clause) : r <= q

(* C7: an insert or update that would store null in a NOT NULL column is   *)
(* rejected and leaves the table unchanged, with the null-constraint error *)
(* when the null is the only fault of the row; no row ever holds null in a *)
(* NOT NULL column; validation accepts null for every column type.         *)
C7_NotNullEnforced ==
    /\ [](/\ NoNullInNotNull(files)
          /\ \A ty \in ColumnTypes, params \in TypeParams :
                 _validate_value_type(None, ty, params) = [ok |-> TRUE, v |-> None])
    /\ [][/\ (Called("insert") /\ InsertsNull(Before, last'.args.values))
               => /\ IsError(last'.res) /\ files' = files
                  /\ RepeatedKeys(Before, InsertedRow(Before, last'.args.values), 0) = {}
                         => last'.res.kind = "null_constraint"
          /\ (Called("update") /\ UpdatesToNull(Before, last'.args.updates, last'.args.where_clause))
               => /\ IsError(last'.res) /\ files' = files
                  /\ LET r == FirstAddressed(Before, last'.args.where_clause)
                     IN  RepeatedKeys(Before, Replacement(Before, last'.args.updates, Before.data[r]), r) = {}
                             => last'.res.kind = "null_constraint"]_vars

(* an update that sets a NOT NULL column of an addressed row to null was   *)
(* rejected with the null-constraint error                                 *)
C7_Witness ==
    /\ last.op = "update" /\ last.res.kind = "null_constraint"
    /\ table_exists(files, last.args.table_name)
    /\ UpdatesToNull(files[last.args.table_name], last.args.updates, last.args.where_clause)

(* C8: a successful insert increases the row count by exactly one, stores  *)
(* the coerced row at the last position (the previous row count) and       *)
(* leaves the values and positions of all earlier rows unchanged.          *)
C8_InsertAppends ==
    [][(Called("insert") /\ last'.res.kind = "ok")
          => /\ table_exists(files', last'.args.table_name)
             /\ Len(After.data) = Len(Before.data) + 1
             /\ After.data[Len(Before.data) + 1] = InsertedRow(Before, last'.args.values)
             /\ \A r \in 1..Len(Before.data) : After.data[r] = Before.data[r]]_vars

(* a successful insert into a table that held a row stored a row that      *)
(* differs from the raw values it was given                                *)
C8_Witness ==
    /\ last.op = "insert" /\ last.res.kind = "ok"
    /\ table_exists(files, last.args.table_name)
    /\ LET data == files[last.args.table_name].data
       IN  Len(data) >= 2 /\ data[Len(data)] # last.args.values

(* C9: an UPDATE that returns no error replaces, in exactly the rows whose  *)
(* predicate column string-equals the predicate value (all rows without a  *)
(* WHERE), exactly the SET columns with the coerced new values, leaves the  *)
(* other columns, the other rows and the row order unchanged and reports   *)
(* the number of matching rows; with valid SET items and a well-formed     *)
(* WHERE that matches no row it reports zero rows and no error.            *)
C9_UpdateReplacesMatchingRows ==
    [][/\ (Called("update") /\ last'.res.kind = "ok")
            => LET hit == Addressed(Before, last'.args.where_clause)
               IN  /\ table_exists(files', last'.args.table_name)
                   /\ Len(After.data) = Len(Before.data)
                   /\ \A r \in 1..Len(Before.data) :
                          After.data[r] = IF r \in hit
                                          THEN Replacement(Before, last'.args.updates, Before.data[r])
                                          ELSE Before.data[r]
                   /\ last'.res.n = Cardinality(hit)
       /\ (/\ Called("update")
           /\ ValidUpdates(Before, last'.args.updates)
           /\ WellFormed(Before, last'.args.where_clause)
           /\ Addressed(Before, last'.args.where_clause) = {})
            => (last'.res.kind = "ok" /\ last'.res.n = 0 /\ After.data = Before.data)]_vars

(* a successful update with a WHERE clause replaced a row and left another *)
(* row, which the clause does not match, in the table                      *)
C9_Witness ==
    /\ last.op = "update" /\ last.res.kind = "ok" /\ ~Falsy(last.args.where_clause)
    /\ table_exists(files, last.args.table_name)
    /\ last.res.n >= 1 /\ last.res.n < Len(files[last.args.table_name].data)

ConstraintViolation(res) == res.kind \in {"unique_constraint", "null_constraint"}

----------------------------------------------------------------------------
(* DELETE *)

(* a DELETE clause with a column = value test on a column of the table *)
DeletePredicate(table, where_clause) ==
    /\ ~Falsy(where_clause)
    /\ Contains(where_clause.s, "=")
    /\ HasColumn(table, WhereColumn(where_clause.s))

(* the rows (1-based), ascending, that the clause does not address *)
Survivors(table, where_clause) == SetToSeq((1..Len(table.data)) \ Addressed(table, where_clause))

(* C11: a DELETE with a column = value predicate on a column of the table  *)
(* succeeds, and every DELETE with a predicate that succeeds removes       *)
(* exactly the rows whose predicate column string-equals the value, keeps  *)
(* the other rows with their values and order, and reports the number of   *)
(* rows removed: rows after = rows before - count.                         *)
C11_DeleteRemovesMatchingRows ==
    [][(/\ Called("delete")
        /\ ~last'.args.where_clause.none
        /\ last'.res.kind = "ok" \/ DeletePredicate(Before, last'.args.where_clause))
          => LET keep == Survivors(Before, last'.args.where_clause)
             IN  /\ last'.res.kind = "ok"
                 /\ table_exists(files', last'.args.table_name)
                 /\ Len(After.data) = Len(keep)
                 /\ \A i \in 1..Len(keep) : After.data[i] = Before.data[keep[i]]
                 /\ last'.res.n = Cardinality(Addressed(Before, last'.args.where_clause))
                 /\ Len(After.data) = Len(Before.data) - last'.res.n]_vars

(* a DELETE with a predicate removed a row and kept another one *)
C11_Witness ==
    /\ last.op = "delete" /\ last.res.kind = "ok" /\ ~last.args.where_clause.none
    /\ table_exists(files, last.args.table_name)
    /\ last.res.n >= 1 /\ Len(files[last.args.table_name].data) >= 1

(* C12: a DELETE without a predicate leaves the table with zero rows and   *)
(* with each of the indexes it had, holding no value entries, and reports  *)
(* the number of rows the table held before the call.                      *)
C12_DeleteAllClearsRowsAndIndexes ==
    [][(Called("delete") /\ last'.args.where_clause.none)
          => /\ last'.res.kind = "ok"
             /\ last'.res.n = Len(Before.data)
             /\ table_exists(files', last'.args.table_name)
             /\ After.data = <<>>
             /\ DOMAIN After.indexes = DOMAIN Before.indexes
             /\ \A c \in DOMAIN After.indexes :
                    /\ DOMAIN After.indexes[c].data = {}
                    /\ After.indexes[c].column_index = Before.indexes[c].column_index]_vars

(* a DELETE without a predicate removed rows from a table that has an      *)
(* index built by create_index besides the index of its key column         *)
C12_Witness ==
    /\ last.op = "delete" /\ last.args.where_clause.none /\ last.res.n >= 2
    /\ table_exists(files, last.args.table_name)
    /\ Cardinality(DOMAIN files[last.args.table_name].indexes) >= 2

----------------------------------------------------------------------------
(* CREATE TABLE *)

(* the names of the columns whose constraints include PRIMARY KEY or UNIQUE *)
KeyColumnNames(columns) == {columns[i].name : i \in {j \in 1..Len(columns) : IsKeyColumn(columns[j])}}

(* C13: right after a successful create_table, whatever came before, the   *)
(* table has zero rows and has an index, without entries, for exactly the  *)
(* columns whose constraints include PRIMARY KEY or UNIQUE.                *)
C13_CreatedTableIsEmptyWithKeyIndexes ==
    [][(last'.op = "create_table" /\ last'.res.kind = "ok")
          => /\ table_exists(files', last'.args.table_name)
             /\ After.data = <<>>
             /\ After.column_definitions = last'.args.columns
             /\ DOMAIN After.indexes = KeyColumnNames(last'.args.columns)
             /\ \A c \in DOMAIN After.indexes :
                    /\ DOMAIN After.indexes[c].data = {}
                    /\ last'.args.columns[After.indexes[c].column_index + 1].name = c]_vars

(* a table that has a key column and a column that is no key was created *)
C13_Witness ==
    /\ last.op = "create_table" /\ last.res.kind = "ok"
    /\ table_exists(files, last.args.table_name)
    /\ LET table == files[last.args.table_name]
       IN  /\ KeyColumnNames(table.column_definitions) # {}
           /\ \E i \in 1..Len(table.column_definitions) :
                  table.column_definitions[i].name \notin DOMAIN table.indexes

(* C14: create_table with the name of an existing table returns the        *)
(* table-already-exists error and leaves the column definitions, rows and  *)
(* indexes of that table unchanged, whatever columns the request lists.    *)
C14_ExistingTableNotRecreated ==
    [][(last'.op = "create_table" /\ last'.args.table_name \in DOMAIN files)
          => (last'.res.kind = "table_already_exists" /\ files' = files)]_vars

(* a create_table that lists other columns than the existing table has was *)
(* rejected while that table held a row                                    *)
C14_Witness ==
    /\ last.op = "create_table" /\ last.res.kind = "table_already_exists"
    /\ last.args.table_name \in DOMAIN files
    /\ files[last.args.table_name].column_definitions # last.args.columns
    /\ Len(files[last.args.table_name].data) >= 1

----------------------------------------------------------------------------
(* The catalog: the calls made on two table names and on a name that is no *)
(* identifier.  Here last also carries created, the names a create_table   *)
(* has returned success for and no drop_table has returned success for     *)
(* since.                                                                  *)

U == <<"u">>

CatalogNames == {T, U, <<"2", "t">>}

CatalogInit ==
    /\ files = [x \in {} |-> 0]
    /\ last = [op |-> "init", args |-> Args(<<>>, <<>>, <<>>, <<>>, NoWhere, <<>>),
               res |-> Ok(0), created |-> {}]

CatalogDo(op, args, out) ==
    LET o == out
    IN  /\ Bounded(o.files)
        /\ files' = o.files
        /\ last' = [op |-> op, args |-> args, res |-> o.res,
                    created |-> IF op = "create_table" /\ o.res.kind = "ok"
                                THEN last.created \cup {args.table_name}
                                ELSE IF op = "drop_table" /\ o.res.kind = "ok"
                                THEN last.created \ {args.table_name}
                                ELSE last.created]

CatalogCreateTable(t, columns) ==
    CatalogDo("create_table", Args(t, columns, <<>>, <<>>, NoWhere, <<>>), create_table(files, t, columns))

CatalogInsert(t, values) ==
    CatalogDo("insert", Args(t, <<>>, values, <<>>, NoWhere, <<>>), insert(files, t, values))

CatalogUpdate(t, updates, where_clause) ==
    CatalogDo("update", Args(t, <<>>, <<>>, updates, where_clause, <<>>),
              update(files, t, updates, where_clause))

CatalogDelete(t, where_clause) ==
    CatalogDo("delete", Args(t, <<>>, <<>>, <<>>, where_clause, <<>>), delete(files, t, where_clause))

CatalogDropTable(t) ==
    CatalogDo("drop_table", Args(t, <<>>, <<>>, <<>>, NoWhere, <<>>), drop_table(files, t))

(* the selects read the directory and leave it as it is *)
CatalogSelectAll(t) ==
    CatalogDo("select_all", Args(t, <<>>, <<>>, <<>>, NoWhere, <<>>), Out(files, select_all(files, t)))

CatalogSelectWhere(t, where_clause) ==
    CatalogDo("select_with_where", Args(t, <<>>, <<>>, <<>>, where_clause, <<>>),
              Out(files, select_with_where(files, t, where_clause)))

CatalogNext ==
    \/ \E t \in CatalogNames, columns \in Schemas : CatalogCreateTable(t, columns)
    \/ \E t \in CatalogNames : CatalogInsert(t, <<IntV(1), StrV(<<"a">>)>>)
    \/ \E t \in CatalogNames : CatalogUpdate(t, <<<<N, StrV(<<"b">>)>>>>, NoWhere)
    \/ \E t \in CatalogNames : CatalogDelete(t, Where(<<"n", "=", "b">>))
    \/ \E t \in CatalogNames : CatalogDropTable(t)
    \/ \E t \in CatalogNames : CatalogSelectAll(t)
    \/ \E t \in CatalogNames : CatalogSelectWhere(t, Where(<<"n", "=", "b">>))

CatalogSpec == CatalogInit /\ [][CatalogNext]_vars

(* C15: list_tables returns exactly the names created with success and not *)
(* dropped since, and table_exists is true exactly for them; insert,       *)
(* update, delete, select and drop on a name that has no table return an   *)
(* error (the selects no result) and create nothing.                       *)
C15_CatalogIsCreatedMinusDropped ==
    /\ [](/\ list_tables(files) = last.created
          /\ \A n \in CatalogNames : table_exists(files, n) <=> n \in last.created)
    /\ [][(/\ last'.op \in {"insert", "update", "delete", "drop_table", "select_all", "select_with_where"}
            /\ last'.args.table_name \notin last.created)
              => /\ files' = files
                 /\ IF last'.op \in {"select_all", "select_with_where"}
                    THEN ~last'.res.found
                    ELSE last'.res.kind = "table_not_found"]_vars

(* a table was dropped with success while another table exists *)
C15_Witness ==
    /\ last.op = "drop_table" /\ last.res.kind = "ok"
    /\ last.args.table_name \notin last.created
    /\ last.created # {}
    /\ list_tables(files) = last.created

----------------------------------------------------------------------------
(* Saving and loading: json.dump writes the document _create_index holds   *)
(* in memory, get_table_info reads it back with json.load.                 *)

(* json.dump's text of a value inside a row *)
JsonDumpValue(v) == IF v.k = "str" THEN <<"\"">> \o v.s \o <<"\"">> ELSE JsonKey(v)

(* json.load's value of that text *)
JsonLoadValue(text) ==
    IF Quoted(text, "\"") THEN StrV(SubSeq(text, 2, Len(text) - 1))
    ELSE IF text = <<"n", "u", "l", "l">> THEN None
    ELSE IF text = <<"t", "r", "u", "e">> THEN BoolV(TRUE)
    ELSE IF text = <<"f", "a", "l", "s", "e">> THEN BoolV(FALSE)
    ELSE IF Contains(text, ".") THEN FloatV(FloatLiteral(text))
    ELSE IntV(IntLiteral(text))

(* index_data as _create_index builds it in memory: a dict from the values *)
(* of the column (of == values, the one met first) to their row positions  *)
MemoryIndexData(data, ci) ==
    LET first == {r \in 1..Len(data) : \A q \in 1..(r - 1) : ~PyEq(data[q][ci + 1], data[r][ci + 1])}
    IN  [v \in {data[r][ci + 1] : r \in first} |-> PositionsOf(data, ci, v)]

(* the same index after json.dump and json.load: every key is a text *)
LoadedIndexData(data, ci) ==
    LET d == IndexData(data, ci)
    IN  [v \in {StrV(k) : k \in DOMAIN d} |-> d[v.s]]

(* the rows after json.dump and json.load *)
LoadedRows(data) ==
    [r \in 1..Len(data) |-> [i \in 1..Len(data[r]) |-> JsonLoadValue(JsonDumpValue(data[r][i]))]]

(* the column definitions after json.dump and json.load *)
LoadedColumnDefinitions(column_defs) ==
    [i \in 1..Len(column_defs) |->
        [name |-> JsonLoadValue(JsonDumpValue(StrV(column_defs[i].name))).s,
         type |-> column_defs[i].type,
         type_params |-> [k \in 1..Len(column_defs[i].type_params) |->
                             JsonLoadValue(JsonDumpValue(IntV(column_defs[i].type_params[k]))).n],
         constraints |-> column_defs[i].constraints]]

(* C16: saving a table and loading it again yields the column definitions, *)
(* the rows and, for the index _create_index has built over any column,    *)
(* the index contents (value keys and position lists) that the table had   *)
(* in memory before it was saved.                                          *)
C16_SaveLoadIsIdentity ==
    \A t \in DOMAIN files :
        /\ LoadedColumnDefinitions(files[t].column_definitions) = files[t].column_definitions
        /\ LoadedRows(files[t].data) = files[t].data
        /\ \A ci \in 0..(Len(files[t].column_definitions) - 1) :
               LoadedIndexData(files[t].data, ci) = MemoryIndexData(files[t].data, ci)

----------------------------------------------------------------------------
(* Validation on its own: a raw value and a column are drawn, the value is *)
(* validated against the column, and the coerced value is validated again. *)
(* last.args.columns holds the column, last.args.values the raw value and, *)
(* after the second validation, the coerced value behind it.               *)

RawValues ==
    {None, IntV(0), IntV(1), IntV(12), IntV(-3),
     FloatV(27), FloatV(20), FloatV(25), FloatV(5), FloatV(-15),
     BoolV(TRUE), BoolV(FALSE),
     StrV(<<>>), StrV(<<"1">>), StrV(<<" ", "1">>), StrV(<<"-", "1">>), StrV(<<"1", ".", "5">>),
     StrV(<<"2", ".", "0">>), StrV(<<"a", "b">>), StrV(<<"a", "b", "c">>), StrV(<<"x">>),
     StrV(<<"t", "r", "u", "e">>), StrV(<<"Y", "e", "s">>), StrV(<<"0">>)}

ValidateParams == TypeParams \cup {<<2, 0>>, <<2>>}

Column == <<"c">>

ValidateInit ==
    /\ files = [x \in {} |-> 0]
    /\ \E value \in RawValues, ty \in ColumnTypes, params \in ValidateParams :
           last = Call("input", Args(<<>>, <<ColDef(Column, ty, params, <<>>)>>, <<value>>,
                                     <<>>, NoWhere, <<>>), Ok(0))

(* _validate_value_type(value, col_def["type"], col_def["type_params"]) *)
Validate ==
    /\ last.op = "input"
    /\ last' = Call("validate", last.args,
                    _validate_value_type(last.args.values[1], last.args.columns[1].type,
                                         last.args.columns[1].type_params))
    /\ UNCHANGED files

(* the same call on the value the first call returned *)
Revalidate ==
    /\ last.op = "validate"
    /\ last.res.ok
    /\ last' = Call("revalidate", [last.args EXCEPT !.values = Append(@, last.res.v)],
                    _validate_value_type(last.res.v, last.args.columns[1].type,
                                         last.args.columns[1].type_params))
    /\ UNCHANGED files

ValidateNext == Validate \/ Revalidate

ValidateSpec == ValidateInit /\ [][ValidateNext]_vars

(* C17: for every column type and every raw value that validate accepts,   *)
(* validating the coerced value against the same column accepts it and     *)
(* returns that very value.                                                *)
C17_ValidateIsIdempotent ==
    [][last'.op = "revalidate" => last'.res = [ok |-> TRUE, v |-> last.res.v]]_vars

(* a coerced value that differs from the raw value was validated again *)
C17_Witness ==
    /\ last.op = "revalidate" /\ last.res.ok
    /\ last.args.values[2] # last.args.values[1]
    /\ last.args.columns[1].type = "DECIMAL"

(* the raw values that denote an integer without loss: integers, booleans, *)
(* floats without a fractional part and the texts of integer literals      *)
LosslessInteger(v) ==
    \/ v.k \in {"int", "bool"}
    \/ v.k = "float" /\ v.n % 10 = 0
    \/ v.k = "str" /\ IsIntLiteral(v.s)

(* C19: validate on an INT column returns a type error for every raw value *)
(* that is not losslessly representable as an integer, such as a number    *)
(* with a fractional part, and the integer itself for every value that is. *)
C19_IntRejectsLossyValues ==
    (/\ last.op = "validate"
     /\ last.args.columns[1].type \in {"INT", "INTEGER"}
     /\ last.args.values[1].k # "null")
        => IF LosslessInteger(last.args.values[1])
           THEN last.res.ok /\ last.res.v.k = "int" /\ PyEq(last.res.v, IntV(PyInt(last.args.values[1])))
           ELSE ~last.res.ok

----------------------------------------------------------------------------
(* VARCHAR(n): the calls made on a table with a VARCHAR(2) column *)

(* id INT PRIMARY KEY, n VARCHAR(2) *)
SchemaVarchar == <<ColDef(ID, "INT", <<>>, <<"PRIMARY KEY">>),
                   ColDef(N, "VARCHAR", <<2>>, <<>>)>>

(* id INT PRIMARY KEY, n VARCHAR(2) UNIQUE *)
SchemaVarcharUnique == <<ColDef(ID, "INT", <<>>, <<"PRIMARY KEY">>),
                         ColDef(N, "VARCHAR", <<2>>, <<"UNIQUE">>)>>

VarcharInserts == {<<IntV(1), StrV(<<"a", "b", "c">>)>>,
                   <<IntV(2), StrV(<<"a", "b">>)>>,
                   <<IntV(2), StrV(<<"a", "b", "d">>)>>,
                   <<IntV(3), StrV(<<"a">>)>>,
                   <<IntV(3), IntV(123)>>,
                   <<IntV(1), BoolV(TRUE)>>,
                   <<IntV(2), FloatV(15)>>,
                   <<IntV(1), None>>}

VarcharUpdates == {<<<<<<N, StrV(<<"a", "b", "c", "d">>)>>>>, Where(<<"i", "d", "=", "1">>)>>,
                   <<<<<<N, IntV(123)>>>>, NoWhere>>,
                   <<<<<<N, StrV(<<"b">>)>>>>, Where(<<"i", "d", "=", "2">>)>>}

VarcharNext ==
    \/ \E columns \in {SchemaVarchar, SchemaVarcharUnique} : CreateTable(T, columns)
    \/ \E values \in VarcharInserts : Insert(T, values)
    \/ \E u \in VarcharUpdates : Update(T, u[1], u[2])
    \/ DropTable(T)

VarcharSpec == Init /\ [][VarcharNext]_vars

(* the string form of a value and its first n characters *)
StringForm(v) == IF v.k = "str" THEN v.s ELSE PyStr(v)

Take(text, n) == SubSeq(text, 1, IF Len(text) < n THEN Len(text) ELSE n)

(* the VARCHAR(n) columns of a table *)
VarcharColumns(table) ==
    {i \in 1..Len(table.column_definitions) :
        table.column_definitions[i].type = "VARCHAR" /\ Len(table.column_definitions[i].type_params) > 0}

(* what a VARCHAR(n) column is to hold for a raw value *)
Stored(col_def, value) ==
    IF value.k = "null" THEN None ELSE StrV(Take(StringForm(value), col_def.type_params[1]))

(* the last item of updates that names the column *)
LastItem(updates, name) ==
    CHOOSE k \in 1..Len(updates) :
        updates[k][1] = name /\ \A j \in (k + 1)..Len(updates) : updates[j][1] # name

----------------------------------------------------------------------------
(* The parser (src/src/parser.py) on CREATE TABLE commands, and the        *)
(* executor's handling of what it returns.  A command is the sequence of   *)
(* its characters.                                                         *)

LowerLetters == <<"a", "b", "c", "d", "e", "f", "g", "h", "i", "j", "k", "l", "m", "n", "o", "p", "q", "r", "s", "t", "u", "v", "w", "x", "y", "z">>
UpperLetters == <<"A", "B", "C", "D", "E", "F", "G", "H", "I", "J", "K", "L", "M", "N", "O", "P", "Q", "R", "S", "T", "U", "V", "W", "X", "Y", "Z">>

(* str.upper() *)
UpperChar(c) == IF \E i \in 1..26 : LowerLetters[i] = c
                THEN UpperLetters[CHOOSE i \in 1..26 : LowerLetters[i] = c]
                ELSE c

Upper(s) == [i \in 1..Len(s) |-> UpperChar(s[i])]

(* the characters the pattern \w matches *)
IsWordChar(c) == c \in Letters \/ IsDigit(c) \/ c = "_"

(* s.split(c) *)
RECURSIVE SplitAll(_, _)
SplitAll(s, c) == IF ~Contains(s, c) THEN <<s>>
                  ELSE <<SplitOnce(s, c)[1]>> \o SplitAll(SplitOnce(s, c)[2], c)

(* the length of the longest prefix of s whose characters satisfy no blank *)
RECURSIVE WordLen(_)
WordLen(s) == IF s = <<>> \/ IsSpace(Head(s)) THEN 0 ELSE 1 + WordLen(Tail(s))

(* s.split(): the words between the blanks *)
RECURSIVE Words(_)
Words(s) == LET t == LStrip(s)
            IN  IF t = <<>> THEN <<>>
                ELSE <<SubSeq(t, 1, WordLen(t))>> \o Words(SubSeq(t, WordLen(t) + 1, Len(t)))

(* s.rstrip(c) *)
RECURSIVE RStripChar(_, _)
RStripChar(s, c) == IF s # <<>> /\ s[Len(s)] = c THEN RStripChar(SubSeq(s, 1, Len(s) - 1), c) ELSE s

(* the texts of the type names and of the constraint words *)
TypeText(ty) ==
    CASE ty = "INT" -> <<"I", "N", "T">>
      [] ty = "INTEGER" -> <<"I", "N", "T", "E", "G", "E", "R">>
      [] ty = "VARCHAR" -> <<"V", "A", "R", "C", "H", "A", "R">>
      [] ty = "TEXT" -> <<"T", "E", "X", "T">>
      [] ty = "STRING" -> <<"S", "T", "R", "I", "N", "G">>
      [] ty = "DECIMAL" -> <<"D", "E", "C", "I", "M", "A", "L">>
      [] ty = "NUMERIC" -> <<"N", "U", "M", "E", "R", "I", "C">>
      [] ty = "FLOAT" -> <<"F", "L", "O", "A", "T">>
      [] ty = "REAL" -> <<"R", "E", "A", "L">>
      [] ty = "BOOLEAN" -> <<"B", "O", "O", "L", "E", "A", "N">>
      [] ty = "BOOL" -> <<"B", "O", "O", "L">>
      [] ty = "DATE" -> <<"D", "A", "T", "E">>
      [] ty = "DATETIME" -> <<"D", "A", "T", "E", "T", "I", "M", "E">>

(* valid_types, as texts *)
ValidTypeTexts == {TypeText(ty) : ty \in ColumnTypes}

(* the tag of the model for the text of a valid type name *)
TypeTag(text) == CHOOSE ty \in ColumnTypes : TypeText(ty) = text

PRIMARY == <<"P", "R", "I", "M", "A", "R", "Y">>
KEY == <<"K", "E", "Y">>
NOT == <<"N", "O", "T">>
NULL == <<"N", "U", "L", "L">>
UNIQUE == <<"U", "N", "I", "Q", "U", "E">>

(* the column definitions the loop over columns_str cuts at the commas     *)
(* outside parentheses, from character i on                                *)
RECURSIVE SplitColumns(_, _, _, _)
SplitColumns(s, i, current, paren_depth) ==
    IF i > Len(s) THEN IF Strip(current) # <<>> THEN <<Strip(current)>> ELSE <<>>
    ELSE IF s[i] = "(" THEN SplitColumns(s, i + 1, Append(current, s[i]), paren_depth + 1)
    ELSE IF s[i] = ")" THEN SplitColumns(s, i + 1, Append(current, s[i]), paren_depth - 1)
    ELSE IF s[i] = "," /\ paren_depth = 0
    THEN <<Strip(current)>> \o SplitColumns(s, i + 1, <<>>, paren_depth)
    ELSE SplitColumns(s, i + 1, Append(current, s[i]), paren_depth)

(* the constraints loop over parts, from part i (1-based) on *)
RECURSIVE ParseConstraints(_, _)
ParseConstraints(parts, i) ==
    IF i > Len(parts) THEN <<>>
    ELSE LET constraint == Upper(parts[i])
             next_is(word) == i + 1 <= Len(parts) /\ Upper(parts[i + 1]) = word
         IN  IF constraint = PRIMARY
             THEN IF next_is(KEY) THEN <<"PRIMARY KEY">> \o ParseConstraints(parts, i + 2)
                  ELSE <<"PRIMARY">> \o ParseConstraints(parts, i + 1)
             ELSE IF constraint = NOT
             THEN IF next_is(NULL) THEN <<"NOT NULL">> \o ParseConstraints(parts, i + 2)
                  ELSE <<"NOT">> \o ParseConstraints(parts, i + 1)
             ELSE IF constraint = UNIQUE THEN <<"UNIQUE">> \o ParseConstraints(parts, i + 1)
             ELSE IF constraint = NULL THEN <<"NULL">> \o ParseConstraints(parts, i + 1)
             ELSE ParseConstraints(parts, i + 1)

(* what parsing yields: an error of some kind, or the columns *)
ParseError(kind) == [error |-> TRUE, kind |-> kind, columns |-> <<>>]
ParsedColumns(columns) == [error |-> FALSE, kind |-> "", columns |-> columns]

(* the body of the loop of _parse_columns_with_types for one column        *)
(* definition: an error, or the one column it appends                      *)
ParseColumn(col_def) ==
    LET parts == Words(col_def)
    IN  IF Len(parts) < 2 THEN ParseError("invalid_column_definition")
        ELSE LET col_name == parts[1]
                 col_type == Upper(parts[2])
                 constraints == ParseConstraints(parts, 3)
             IN  IF col_type = TypeText("VARCHAR") THEN ParseError("varchar_without_length")
                 ELSE IF Contains(col_type, "(")
                 THEN LET type_parts == SplitAll(col_type, "(")
                          base_type == type_parts[1]
                          params_str == RStripChar(type_parts[2], ")")
                      IN  IF base_type = TypeText("VARCHAR")
                          THEN IF IsIntLiteral(params_str)
                               THEN ParsedColumns(<<ColDef(col_name, "VARCHAR",
                                                           <<IntLiteral(params_str)>>, constraints)>>)
                               ELSE ParseError("invalid_varchar_length")
                          ELSE IF base_type = TypeText("DECIMAL")
                          THEN IF Contains(params_str, ",")
                               THEN LET items == SplitAll(params_str, ",")
                                    IN  IF Len(items) = 2 /\ IsIntLiteral(items[1]) /\ IsIntLiteral(items[2])
                                        THEN ParsedColumns(<<ColDef(col_name, "DECIMAL",
                                                 <<IntLiteral(items[1]), IntLiteral(items[2])>>, constraints)>>)
                                        ELSE ParseError("invalid_decimal_parameters")
                               ELSE IF IsIntLiteral(params_str)
                               THEN ParsedColumns(<<ColDef(col_name, "DECIMAL",
                                                           <<IntLiteral(params_str), 0>>, constraints)>>)
                               ELSE ParseError("invalid_decimal_parameters")
                          ELSE ParseError("unsupported_parameterized_type")
                 ELSE IF col_type \notin ValidTypeTexts THEN ParseError("unsupported_data_type")
                 ELSE ParsedColumns(<<ColDef(col_name, TypeTag(col_type), <<>>, constraints)>>)

(* the loop of _parse_columns_with_types from column definition i on *)
RECURSIVE ParseColumnsFrom(_, _, _)
ParseColumnsFrom(column_defs, i, columns) ==
    IF i > Len(column_defs)
    THEN IF columns = <<>> THEN ParseError("no_columns") ELSE ParsedColumns(columns)
    ELSE IF column_defs[i] = <<>> THEN ParseColumnsFrom(column_defs, i + 1, columns)
    ELSE LET one == ParseColumn(column_defs[i])
         IN  IF one.error THEN one
             ELSE ParseColumnsFrom(column_defs, i + 1, columns \o one.columns)

_parse_columns_with_types(columns_str) ==
    ParseColumnsFrom(SplitColumns(columns_str, 1, <<>>, 0), 1, <<>>)

(* a parsed command: action is "error" or "create_table" *)
Parsed(action, kind, table_name, columns) ==
    [action |-> action, kind |-> kind, table_name |-> table_name, columns |-> columns]

(* the non-empty stripped pieces of columns_str.split(','), from piece i on *)
RECURSIVE OldStyleNames(_, _)
OldStyleNames(pieces, i) ==
    IF i > Len(pieces) THEN <<>>
    ELSE IF Strip(pieces[i]) = <<>> THEN OldStyleNames(pieces, i + 1)
    ELSE <<Strip(pieces[i])>> \o OldStyleNames(pieces, i + 1)

_parse_columns_old_style(table_name, columns_str) ==
    LET columns == OldStyleNames(SplitAll(columns_str, ","), 1)
    IN  IF columns = <<>> THEN Parsed("error", "no_columns", <<>>, <<>>)
        ELSE Parsed("create_table", "", table_name,
                    [i \in 1..Len(columns) |-> ColDef(columns[i], "TEXT", <<>>, <<>>)])

(* _parse_create_table when the typed parse has failed: it tries the old style *)
TypedParseFailed(table_name, columns_str) == _parse_columns_old_style(table_name, columns_str)

CreateTableText == <<"C", "R", "E", "A", "T", "E", " ", "T", "A", "B", "L", "E", " ">>

(* the length of the longest prefix of s made of word characters *)
RECURSIVE NameLen(_)
NameLen(s) == IF s = <<>> \/ ~IsWordChar(Head(s)) THEN 0 ELSE 1 + NameLen(Tail(s))

(* the position of the last c in s *)
LastPos(s, c) == CHOOSE i \in 1..Len(s) : s[i] = c /\ \A j \in (i + 1)..Len(s) : s[j] # c

(* _parse_create_table: re.match of the pattern (CREATE TABLE, a blank, a  *)
(* name of word characters, optional blanks, an opening parenthesis, any   *)
(* text, a closing parenthesis; case ignored), then the typed parse and,   *)
(* when that fails, the old style                                          *)
_parse_create_table(sql) ==
    LET rest == SubSeq(sql, Len(CreateTableText) + 1, Len(sql))
        table_name == SubSeq(rest, 1, NameLen(rest))
        opening == LStrip(SubSeq(rest, NameLen(rest) + 1, Len(rest)))
        match == /\ Len(sql) >= Len(CreateTableText)
                 /\ Upper(SubSeq(sql, 1, Len(CreateTableText))) = CreateTableText
                 /\ table_name # <<>>
                 /\ opening # <<>> /\ Head(opening) = "("
                 /\ Contains(Tail(opening), ")")
    IN  IF ~match THEN Parsed("error", "invalid_create_table_syntax", <<>>, <<>>)
        ELSE LET columns_str == SubSeq(Tail(opening), 1, LastPos(Tail(opening), ")") - 1)
                 result == _parse_columns_with_types(columns_str)
             IN  IF ~result.error THEN Parsed("create_table", "", table_name, result.columns)
                 ELSE TypedParseFailed(table_name, columns_str)

(* the words of the SELECT and DELETE commands *)
SELECT == <<"S", "E", "L", "E", "C", "T">>
FROM == <<"F", "R", "O", "M">>
INNER == <<"I", "N", "N", "E", "R">>
JOIN == <<"J", "O", "I", "N">>
ON == <<"O", "N">>
WHERE == <<"W", "H", "E", "R", "E">>
DELETE == <<"D", "E", "L", "E", "T", "E">>

(* a group of the pattern that is one or more word characters *)
IsWord(w) == w # <<>> /\ \A i \in 1..Len(w) : IsWordChar(w[i])

(* the text of the words from position a to position b: the commands of    *)
(* the model separate their words by one blank                             *)
RECURSIVE Between(_, _, _)
Between(w, a, b) == IF a > b THEN <<>>
                    ELSE IF a = b THEN w[a]
                    ELSE w[a] \o <<" ">> \o Between(w, a + 1, b)

Largest(S) == CHOOSE x \in S : \A y \in S : y <= x
Smallest(S) == CHOOSE x \in S : \A y \in S : x <= y

(* [col.strip() for col in columns_str.split(',')] *)
StrippedPieces(pieces) == [i \in 1..Len(pieces) |-> Strip(pieces[i])]

(* the pieces that are not empty, in order *)
RECURSIVE NonEmpty(_)
NonEmpty(pieces) == IF pieces = <<>> THEN <<>>
                    ELSE IF Head(pieces) = <<>> THEN NonEmpty(Tail(pieces))
                    ELSE <<Head(pieces)>> \o NonEmpty(Tail(pieces))

(* the columns of a SELECT: "*" or a list of names *)
Star == [star |-> TRUE, names |-> <<>>]
ColumnList(names) == [star |-> FALSE, names |-> names]

ParsedSelect(action, table_name, columns, where) ==
    [action |-> action, kind |-> "", table_name |-> table_name, columns |-> columns, where |-> where]

ParsedJoin(tables, columns, join_condition, where) ==
    [action |-> "select_join", kind |-> "", tables |-> tables, columns |-> columns,
     join_condition |-> join_condition, where |-> where]

ParsedDelete(table_name, where) ==
    [action |-> "delete", kind |-> "", table_name |-> table_name, where |-> where]

(* _parse_select: the three patterns in turn, on the words of the command. *)
(* The greedy column group ends at the last FROM after which the rest of   *)
(* the pattern matches; the lazy join condition ends at the first WHERE    *)
(* that is followed by text.                                               *)
_parse_select(sql) ==
    LET w == Words(sql)
        n == Len(w)
        is(i, word) == i <= n /\ Upper(w[i]) = word
        tail(f) == n = f + 1 \/ (n >= f + 3 /\ is(f + 2, WHERE))
        where(f) == IF n = f + 1 THEN NoWhere ELSE Where(Between(w, f + 3, n))
        join_froms == {f \in 3..n : /\ is(f, FROM) /\ f + 6 <= n
                                    /\ IsWord(w[f + 1]) /\ is(f + 2, INNER) /\ is(f + 3, JOIN)
                                    /\ IsWord(w[f + 4]) /\ is(f + 5, ON)}
        cols_froms == {f \in 3..(n - 1) : is(f, FROM) /\ IsWord(w[f + 1]) /\ tail(f)}
    IN  IF ~is(1, SELECT) THEN Parsed("error", "invalid_select_syntax", <<>>, <<>>)
        ELSE IF join_froms # {}
        THEN LET f == Largest(join_froms)
                 wheres == {k \in (f + 7)..(n - 1) : is(k, WHERE)}
                 columns_str == Between(w, 2, f - 1)
                 columns == IF columns_str = <<"*">> THEN Star
                            ELSE ColumnList(StrippedPieces(SplitAll(columns_str, ",")))
             IN  IF wheres = {}
                 THEN ParsedJoin(<<w[f + 1], w[f + 4]>>, columns, Between(w, f + 6, n), NoWhere)
                 ELSE ParsedJoin(<<w[f + 1], w[f + 4]>>, columns,
                                 Between(w, f + 6, Smallest(wheres) - 1),
                                 Where(Between(w, Smallest(wheres) + 1, n)))
        ELSE IF n >= 4 /\ w[2] = <<"*">> /\ is(3, FROM) /\ IsWord(w[4]) /\ tail(3)
        THEN ParsedSelect("select_all", w[4], Star, where(3))
        ELSE IF cols_froms # {}
        THEN LET f == Largest(cols_froms)
             IN  ParsedSelect("select_columns", w[f + 1],
                              ColumnList(NonEmpty(StrippedPieces(SplitAll(Between(w, 2, f - 1), ",")))),
                              where(f))
        ELSE Parsed("error", "invalid_select_syntax", <<>>, <<>>)

(* _parse_delete: DELETE FROM and a name, then nothing or WHERE and text *)
_parse_delete(sql) ==
    LET w == Words(sql)
        n == Len(w)
    IN  IF /\ n >= 3 /\ Upper(w[1]) = DELETE /\ Upper(w[2]) = FROM /\ IsWord(w[3])
           /\ (n = 3 \/ (n >= 5 /\ Upper(w[4]) = WHERE))
        THEN ParsedDelete(w[3], IF n = 3 THEN NoWhere ELSE Where(Between(w, 5, n)))
        ELSE Parsed("error", "invalid_delete_syntax", <<>>, <<>>)

(* sql_upper.startswith(word) *)
StartsWith(sql, word) == Len(sql) >= Len(word) /\ Upper(SubSeq(sql, 1, Len(word))) = word

(* parse_sql, for the CREATE TABLE, SELECT and DELETE commands of the model *)
parse_sql(sql_command) ==
    LET sql == Strip(sql_command)
    IN  IF sql = <<>> THEN Parsed("error", "empty_command", <<>>, <<>>)
        ELSE IF StartsWith(sql, RStrip(CreateTableText)) THEN _parse_create_table(sql)
        ELSE IF StartsWith(sql, SELECT) THEN _parse_select(sql)
        ELSE IF StartsWith(sql, DELETE) THEN _parse_delete(sql)
        ELSE Parsed("error", "command_not_supported", <<>>, <<>>)

(* what execute returns for a SELECT: a row list (kind "rows") or an error *)
(* text; kind "raised" stands for an exception that leaves execute         *)
QRows(rows) == [kind |-> "rows", n |-> 0, col |-> <<>>, rows |-> rows]
QErr(kind, col) == [kind |-> kind, n |-> 0, col |-> col, rows |-> <<>>]

(* list.index(x), from 1; the last position of x in the list *)
IndexOf(list, x) == CHOOSE i \in 1..Len(list) : list[i] = x /\ \A j \in 1..(i - 1) : list[j] # x
LastIndexOf(list, x) == CHOOSE i \in 1..Len(list) : list[i] = x /\ \A j \in (i + 1)..Len(list) : list[j] # x

(* [row[i] for i in column_indices] for every row *)
Project(rows, column_indices) ==
    [r \in 1..Len(rows) |-> [i \in 1..Len(column_indices) |-> rows[r][column_indices[i]]]]

(* SQLExecutor._execute_select *)
_execute_select(fs, table_name, columns, where_clause) ==
    IF ~table_exists(fs, table_name) THEN QErr("table_not_found", <<>>)
    ELSE LET found == IF ~Falsy(where_clause) THEN select_with_where(fs, table_name, where_clause)
                      ELSE select_all(fs, table_name)
             rows == found.rows
             all_columns == fs[table_name].columns
             missing == {i \in 1..Len(columns.names) : ~Has(all_columns, columns.names[i])}
         IN  IF ~found.found THEN QErr("could_not_retrieve", <<>>)
             ELSE IF columns.star \/ rows = <<>> THEN QRows(rows)
             ELSE IF missing # {} THEN QErr("column_not_found", columns.names[Smallest(missing)])
             ELSE IF columns.names = <<>> THEN QErr("no_valid_columns", <<>>)
             ELSE QRows(Project(rows, [i \in 1..Len(columns.names) |-> IndexOf(all_columns, columns.names[i])]))

(* a comparison of the join values themselves *)
JoinMatches_typed(val1, val2) == PyEq(val1, val2)

(* str(val1) == str(val2) *)
JoinMatches(val1, val2) == PyStr(val1) = PyStr(val2)

(* what _apply_where_to_join returns, or the ValueError it raises *)
Filtered(rows) == [raised |-> FALSE, rows |-> rows]
Raised == [raised |-> TRUE, rows |-> <<>>]

(* SQLExecutor._apply_where_to_join; info1 and info2 are the column names *)
_apply_where_to_join(rows, where_clause, table1, table2, info1, info2) ==
    IF ~Contains(where_clause, "=") THEN Filtered(rows)
    ELSE LET col_name == WhereColumn(where_clause)
             val == WhereValue(where_clause)
             parts == SplitAll(col_name, ".")
             table_part == Strip(parts[1])
             col_part == Strip(parts[2])
             keep(position) == Filtered(KeepRows(rows, {r \in 1..Len(rows) : PyStr(rows[r][position]) = val}, 1))
         IN  IF Contains(col_name, ".")
             THEN IF Len(parts) # 2 THEN Raised
                  ELSE IF table_part = table1 /\ Has(info1, col_part) THEN keep(IndexOf(info1, col_part))
                  ELSE IF table_part = table2 /\ Has(info2, col_part)
                  THEN keep(IndexOf(info2, col_part) + Len(info1))
                  ELSE Filtered(rows)
             ELSE IF Has(info1, col_name) THEN keep(IndexOf(info1, col_name))
             ELSE IF Has(info2, col_name) THEN keep(IndexOf(info2, col_name) + Len(info1))
             ELSE Filtered(rows)

(* table.column, the key of a qualified column *)
Qualified(table, col_name) == table \o <<".">> \o col_name

(* column_positions of _filter_join_columns for col, 0 when col is no key: *)
(* the entries of the second table overwrite equal qualified keys and do   *)
(* not replace an unqualified key of the first table                       *)
ColumnPosition(col, table1, table2, info1, info2) ==
    IF \E i \in 1..Len(info2) : Qualified(table2, info2[i]) = col
    THEN Len(info1) + (CHOOSE i \in 1..Len(info2) :
                           /\ Qualified(table2, info2[i]) = col
                           /\ \A j \in (i + 1)..Len(info2) : Qualified(table2, info2[j]) # col)
    ELSE IF \E i \in 1..Len(info1) : Qualified(table1, info1[i]) = col
    THEN CHOOSE i \in 1..Len(info1) :
             /\ Qualified(table1, info1[i]) = col
             /\ \A j \in (i + 1)..Len(info1) : Qualified(table1, info1[j]) # col
    ELSE IF Has(info1, col) THEN LastIndexOf(info1, col)
    ELSE IF Has(info2, col) THEN Len(info1) + IndexOf(info2, col)
    ELSE 0

(* SQLExecutor._filter_join_columns: the requested columns that are no key *)
(* are skipped                                                             *)
_filter_join_columns(rows, columns, table1, table2, info1, info2) ==
    LET known == {i \in 1..Len(columns) : ColumnPosition(columns[i], table1, table2, info1, info2) # 0}
        kept == KeepRows(columns, known, 1)
        column_indices == [i \in 1..Len(kept) |-> ColumnPosition(kept[i], table1, table2, info1, info2)]
    IN  IF column_indices = <<>> THEN rows ELSE Project(rows, column_indices)

(* SQLExecutor._execute_join *)
_execute_join(fs, tables, columns, join_condition, where_clause) ==
    LET table1 == tables[1]
        table2 == tables[2]
        sides == SplitOnce(join_condition, "=")
        left_parts == SplitAll(Strip(sides[1]), ".")
        right_parts == SplitAll(Strip(sides[2]), ".")
        left_table == Strip(left_parts[1])
        left_col == Strip(left_parts[2])
        right_table == Strip(right_parts[1])
        right_col == Strip(right_parts[2])
        data1 == fs[table1].data
        data2 == fs[table2].data
        info1 == fs[table1].columns
        info2 == fs[table2].columns
        col1_idx == IF left_table = table1 /\ Has(info1, left_col) THEN IndexOf(info1, left_col)
                    ELSE IF left_table = table2 /\ Has(info2, left_col) THEN IndexOf(info2, left_col)
                    ELSE 0
        col2_idx == IF right_table = table1 /\ Has(info1, right_col) THEN IndexOf(info1, right_col)
                    ELSE IF right_table = table2 /\ Has(info2, right_col) THEN IndexOf(info2, right_col)
                    ELSE 0
        val1(r1, r2) == IF left_table = table1 THEN data1[r1][col1_idx] ELSE data2[r2][col1_idx]
        val2(r1, r2) == IF right_table = table1 THEN data1[r1][col2_idx] ELSE data2[r2][col2_idx]
        pairs == [k \in 1..(Len(data1) * Len(data2)) |->
                     <<((k - 1) \div Len(data2)) + 1, ((k - 1) % Len(data2)) + 1>>]
        matching == KeepRows(pairs, {k \in 1..Len(pairs) :
                                        JoinMatches(val1(pairs[k][1], pairs[k][2]),
                                                    val2(pairs[k][1], pairs[k][2]))}, 1)
        result == [k \in 1..Len(matching) |-> data1[matching[k][1]] \o data2[matching[k][2]]]
        filtered == IF ~Falsy(where_clause) /\ result # <<>>
                    THEN _apply_where_to_join(result, where_clause.s, table1, table2, info1, info2)
                    ELSE Filtered(result)
    IN  IF ~table_exists(fs, table1) THEN QErr("table_not_found", table1)
        ELSE IF ~table_exists(fs, table2) THEN QErr("table_not_found", table2)
        ELSE IF ~Contains(join_condition, "=") THEN QErr("invalid_join_condition", <<>>)
        ELSE IF Len(left_parts) # 2 \/ Len(right_parts) # 2 THEN QErr("join_condition_format", <<>>)
        ELSE IF left_table \notin {table1, table2} \/ right_table \notin {table1, table2}
        THEN QErr("join_tables_mismatch", <<>>)
        ELSE IF col1_idx = 0 \/ col2_idx = 0 THEN QErr("join_column_not_found", <<>>)
        ELSE IF filtered.raised THEN QErr("raised", <<>>)
        ELSE IF ~columns.star /\ filtered.rows # <<>>
        THEN QRows(_filter_join_columns(filtered.rows, columns.names, table1, table2, info1, info2))
        ELSE QRows(filtered.rows)

(* a status or error text of the database, as a result of execute *)
Status(res) == [kind |-> res.kind, n |-> res.n, col |-> res.col, rows |-> <<>>]

(* SQLExecutor.execute after parse_sql: the error of the parser, or the    *)
(* result of the method the action names                                   *)
Dispatch(fs, parsed) ==
    IF parsed.action = "error" THEN Out(fs, Err(parsed.kind))
    ELSE IF parsed.action = "create_table" THEN create_table(fs, parsed.table_name, parsed.columns)
    ELSE IF parsed.action \in {"select_all", "select_columns"}
    THEN Out(fs, _execute_select(fs, parsed.table_name, parsed.columns, parsed.where))
    ELSE IF parsed.action = "select_join"
    THEN Out(fs, _execute_join(fs, parsed.tables, parsed.columns, parsed.join_condition, parsed.where))
    ELSE LET o == delete(fs, parsed.table_name, parsed.where)
         IN  Out(o.files, Status(o.res))

(* SQLExecutor.execute *)
execute(fs, sql_command) == Dispatch(fs, parse_sql(sql_command))


(* the commands the model executes *)
Command(table_name, columns_str) == CreateTableText \o table_name \o <<" ", "(">> \o columns_str \o <<")">>

Commands ==
    {Command(<<"t">>, <<"i", "d", " ", "I", "N", "T", " ", "P", "R", "I", "M", "A", "R", "Y", " ", "K", "E", "Y", ",", " ", "n", " ", "V", "A", "R", "C", "H", "A", "R", "(", "5", ")">>),
     Command(<<"t">>, <<"i", "d", " ", "i", "n", "t", ",", " ", "p", " ", "D", "E", "C", "I", "M", "A", "L", "(", "8", ",", "2", ")", " ", "n", "o", "t", " ", "n", "u", "l", "l">>),
     Command(<<"t">>, <<"i", "d", ",", " ", "n">>),
     Command(<<"t">>, <<"i", "d", " ", "I", "N", "T", " ", "U", "N", "I", "Q", "U", "E", ",", " ", "a", " ", "T", "E", "X", "T">>),
     Command(<<"t">>, <<"i", "d", " ", "F", "O", "O">>),
     Command(<<"t">>, <<"i", "d", " ", "V", "A", "R", "C", "H", "A", "R">>),
     Command(<<"v">>, <<"i", "d", " ", "I", "N", "T", ",", " ", "n", " ", "V", "A", "R", "C", "H", "A", "R">>),
     Command(<<"v">>, <<"i", "d", " ", "F", "O", "O", "(", "3", ")">>),
     Command(<<"v">>, <<"i", "d", " ", "V", "A", "R", "C", "H", "A", "R", "(", "x", ")">>),
     Command(<<"v">>, <<"i", "d", " ", "U", "N", "K", "N", "O", "W", "N", "_", "T", "Y", "P", "E", ",", " ", "n", " ", "T", "E", "X", "T">>),
     Command(<<"v">>, <<"i", "d">>),
     Command(<<"v">>, <<"i", "d", " ", "B", "O", "O", "L", "E", "A", "N", ",", ",", " ", "d", " ", "D", "A", "T", "E">>),
     Command(<<"v">>, <<>>),
     <<"C", "R", "E", "A", "T", "E", " ", "T", "A", "B", "L", "E", " ", "t", " ", "(", "i", "d", " ", "I", "N", "T">>,
     <<"c", "r", "e", "a", "t", "e", " ", "t", "a", "b", "l", "e", " ", "t", "(", "i", "d", " ", "I", "N", "T", ")", " ">>}

ParseNames == {T, <<"v">>}

ParseInit ==
    /\ files = [x \in {} |-> 0]
    /\ last = [op |-> "init", sql |-> <<>>, parsed |-> Parsed("error", "", <<>>, <<>>), res |-> Ok(0)]

(* execute, keeping what parse_sql returned *)
Execute(sql_command) ==
    LET parsed == parse_sql(sql_command)
        o == Dispatch(files, parsed)
    IN  /\ files' = o.files
        /\ last' = [op |-> "execute", sql |-> sql_command, parsed |-> parsed, res |-> o.res]

ParseDropTable(t) ==
    LET o == drop_table(files, t)
    IN  /\ files' = o.files
        /\ last' = [op |-> "drop_table", sql |-> t, parsed |-> Parsed("error", "", <<>>, <<>>), res |-> o.res]

ParseNext ==
    \/ \E sql_command \in Commands : Execute(sql_command)
    \/ \E t \in ParseNames : ParseDropTable(t)

ParseSpec == ParseInit /\ [][ParseNext]_vars

(* the text between the first "(" and the last ")" of a command *)
ColumnsText(sql) ==
    LET opening == SubSeq(sql, FirstPos(sql, "("), Len(sql))
    IN  SubSeq(Tail(opening), 1, LastPos(Tail(opening), ")") - 1)

(* some column definition of the command names an unknown type or VARCHAR  *)
(* without a length: the typed parse of its columns stops at such a column *)
NamesBadType(sql) ==
    /\ Contains(sql, "(") /\ Contains(SubSeq(sql, FirstPos(sql, "("), Len(sql)), ")")
    /\ _parse_columns_with_types(ColumnsText(sql)).kind
           \in {"unsupported_data_type", "unsupported_parameterized_type", "varchar_without_length"}

(* C20: parsing a CREATE TABLE command in which some column definition     *)
(* names an unknown type or a VARCHAR without a length returns a syntax    *)
(* error and no create_table descriptor, so executing it creates no table. *)
C20_BadColumnTypeRejected ==
    [][(last'.op = "execute" /\ NamesBadType(last'.sql))
          => (last'.parsed.action = "error" /\ IsError(last'.res) /\ files' = files)]_vars

----------------------------------------------------------------------------
(* DELETE and the indexes *)

(* every index of the table lists, under each value, exactly the positions *)
(* of the rows that hold the value                                         *)
Mirrored(table) ==
    \A c \in DOMAIN table.indexes : \A key \in DOMAIN table.indexes[c].data :
        Elements(table.indexes[c].data[key]) = Holders(table, table.indexes[c].column_index, key)

(* every position an index of the table lists is the position of a row    *)
(* that holds the indexed value                                            *)
PositionsValid(table) ==
    \A c \in DOMAIN table.indexes : \A key \in DOMAIN table.indexes[c].data :
        \A p \in Elements(table.indexes[c].data[key]) :
            /\ p < Len(table.data)
            /\ JsonKey(table.data[p + 1][table.indexes[c].column_index + 1]) = key

(* C26: after a DELETE with a predicate that removes at least one row from *)
(* a table whose indexes mirrored its rows, every row position listed in   *)
(* any index of the table is less than the row count and its row holds the *)
(* indexed value.                                                          *)
C26_DeleteRenumbersIndexPositions ==
    [][(/\ Called("delete")
        /\ ~last'.args.where_clause.none
        /\ last'.res.kind = "ok" /\ last'.res.n >= 1
        /\ Mirrored(Before))
          => PositionsValid(After)]_vars

----------------------------------------------------------------------------
(* null in key columns: the calls made on tables whose key column accepts  *)
(* null                                                                    *)

NullInserts == {<<None, StrV(<<"a">>)>>,
                <<None, StrV(<<"b">>)>>,
                <<IntV(1), None>>,
                <<IntV(2), None>>,
                <<IntV(2), StrV(<<"b">>)>>}

NullUpdates == {<<<<<<ID, None>>>>, Where(<<"n", "=", "b">>)>>,
                <<<<<<N, None>>>>, Where(<<"i", "d", "=", "2">>)>>,
                <<<<<<ID, None>>>>, NoWhere>>,
                <<<<<<N, StrV(<<"b">>)>>>>, Where(<<"i", "d", "=", "N", "o", "n", "e">>)>>}

NullNext ==
    \/ \E columns \in Schemas : CreateTable(T, columns)
    \/ \E values \in NullInserts : Insert(T, values)
    \/ \E u \in NullUpdates : Update(T, u[1], u[2])
    \/ \E w \in {NoWhere, Where(<<"n", "=", "a">>)} : Delete(T, w)
    \/ DropTable(T)

NullSpec == Init /\ [][NullNext]_vars

(* the key columns of the table that lack NOT NULL *)
NullableKeys(table) == KeyColumns(table) \ NotNullColumns(table)

(* the rows (1-based) that hold null in column i *)
NullRows(table, i) == {r \in 1..Len(table.data) : table.data[r][i].k = "null"}

(* the nullable key columns in which the row holds null and so does        *)
(* another row than exclude                                                *)
SecondNulls(table, row, exclude) ==
    {i \in NullableKeys(table) : row[i].k = "null" /\ NullRows(table, i) \ {exclude} # {}}

(* an insert of as many values as columns, all coercible *)
Storable(table, values) ==
    Len(values) = Len(table.column_definitions) /\ UncoercibleValues(table, values) = {}

(* C29: no table holds two rows with null in the same UNIQUE or PRIMARY    *)
(* KEY column; an insert of a well-typed row with null in such a column    *)
(* succeeds when no constraint of the row is violated, and an insert, or   *)
(* an update of another row, that would store a second null in a key       *)
(* column without NOT NULL is rejected and leaves the table unchanged,     *)
(* with the duplicate-value error when no NOT NULL column would get null.  *)
C29_SecondNullInKeyRejected ==
    /\ [](\A t \in DOMAIN files : \A i \in KeyColumns(files[t]) :
             Cardinality(NullRows(files[t], i)) <= 1)
    /\ [][/\ (Called("insert") /\ Storable(Before, last'.args.values))
               => LET row == InsertedRow(Before, last'.args.values)
                  IN  /\ SecondNulls(Before, row, 0) # {}
                          => /\ IsError(last'.res) /\ files' = files
                             /\ NullsInNotNull(Before, row) = {}
                                    => last'.res.kind = "unique_constraint"
                      /\ (RepeatedKeys(Before, row, 0) = {} /\ NullsInNotNull(Before, row) = {})
                          => /\ last'.res.kind = "ok"
                             /\ After.data = Before.data \o <<row>>
          /\ (/\ Called("update")
              /\ ValidUpdates(Before, last'.args.updates)
              /\ WellFormed(Before, last'.args.where_clause)
              /\ \E r \in Addressed(Before, last'.args.where_clause) :
                     SecondNulls(Before, Replacement(Before, last'.args.updates, Before.data[r]), r) # {})
               => /\ IsError(last'.res) /\ files' = files
                  /\ (\A r \in Addressed(Before, last'.args.where_clause) :
                          NullsInNotNull(Before, Replacement(Before, last'.args.updates, Before.data[r])) = {})
                         => last'.res.kind = "unique_constraint"]_vars

(* an update that would give a second row null in a key column was         *)
(* rejected as a duplicate on a table that holds a row with null there     *)
C29_Witness ==
    /\ last.op = "update" /\ last.res.kind = "unique_constraint"
    /\ table_exists(files, last.args.table_name)
    /\ LET table == files[last.args.table_name]
       IN  /\ \E i \in NullableKeys(table) : Cardinality(NullRows(table, i)) = 1
           /\ \E r \in Addressed(table, last.args.where_clause) :
                  SecondNulls(table, Replacement(table, last.args.updates, table.data[r]), r) # {}

----------------------------------------------------------------------------
(* SELECT, JOIN and DELETE through execute: two tables filled by the       *)
(* methods of the database, and the commands executed on them              *)

(* m TEXT, id INT *)
SchemaU == <<ColDef(<<"m">>, "TEXT", <<>>, <<>>), ColDef(ID, "INT", <<>>, <<>>)>>

QueryInsertsT == {<<IntV(1), StrV(<<"a">>)>>, <<IntV(2), StrV(<<"b">>)>>, <<IntV(1), StrV(<<"b">>)>>}

QueryInsertsU == {<<StrV(<<"1">>), IntV(1)>>, <<StrV(<<"a">>), IntV(2)>>}

QueryCommands ==
    {<<"S", "E", "L", "E", "C", "T", " ", "*", " ", "F", "R", "O", "M", " ", "t">>,
     <<"S", "E", "L", "E", "C", "T", " ", "*", " ", "F", "R", "O", "M", " ", "t", " ", "W", "H", "E", "R", "E", " ", "i", "d", "=", "1">>,
     <<"S", "E", "L", "E", "C", "T", " ", "*", " ", "F", "R", "O", "M", " ", "t", " ", "W", "H", "E", "R", "E", " ", "n", " ", "=", " ", "'", "a", "'">>,
     <<"S", "E", "L", "E", "C", "T", " ", "*", " ", "F", "R", "O", "M", " ", "t", " ", "W", "H", "E", "R", "E", " ", "z", "z", "=", "1">>,
     <<"S", "E", "L", "E", "C", "T", " ", "*", " ", "F", "R", "O", "M", " ", "t", " ", "W", "H", "E", "R", "E", " ", "i", "d">>,
     <<"S", "E", "L", "E", "C", "T", " ", "i", "d", " ", "F", "R", "O", "M", " ", "t">>,
     <<"S", "E", "L", "E", "C", "T", " ", "n", ",", " ", "i", "d", " ", "F", "R", "O", "M", " ", "t", " ", "W", "H", "E", "R", "E", " ", "i", "d", "=", "1">>,
     <<"S", "E", "L", "E", "C", "T", " ", "z", "z", " ", "F", "R", "O", "M", " ", "t">>,
     <<"S", "E", "L", "E", "C", "T", " ", "i", "d", ",", " ", "z", "z", " ", "F", "R", "O", "M", " ", "t", " ", "W", "H", "E", "R", "E", " ", "i", "d", "=", "9">>,
     <<"S", "E", "L", "E", "C", "T", " ", "*", " ", "F", "R", "O", "M", " ", "t", " ", "W", "H", "E", "R", "E">>,
     <<"S", "E", "L", "E", "C", "T", " ", "*", " ", "F", "R", "O", "M", " ", "t", " ", "I", "N", "N", "E", "R", " ", "J", "O", "I", "N", " ", "u", " ", "O", "N", " ", "t", ".", "i", "d", " ", "=", " ", "u", ".", "i", "d">>,
     <<"S", "E", "L", "E", "C", "T", " ", "*", " ", "F", "R", "O", "M", " ", "t", " ", "I", "N", "N", "E", "R", " ", "J", "O", "I", "N", " ", "u", " ", "O", "N", " ", "u", ".", "m", " ", "=", " ", "t", ".", "i", "d">>,
     <<"s", "e", "l", "e", "c", "t", " ", "*", " ", "f", "r", "o", "m", " ", "u", " ", "i", "n", "n", "e", "r", " ", "j", "o", "i", "n", " ", "t", " ", "o", "n", " ", "t", ".", "n", "=", "u", ".", "m">>,
     <<"S", "E", "L", "E", "C", "T", " ", "t", ".", "n", ",", " ", "u", ".", "i", "d", " ", "F", "R", "O", "M", " ", "t", " ", "I", "N", "N", "E", "R", " ", "J", "O", "I", "N", " ", "u", " ", "O", "N", " ", "t", ".", "i", "d", " ", "=", " ", "u", ".", "i", "d">>,
     <<"S", "E", "L", "E", "C", "T", " ", "z", "z", " ", "F", "R", "O", "M", " ", "t", " ", "I", "N", "N", "E", "R", " ", "J", "O", "I", "N", " ", "u", " ", "O", "N", " ", "t", ".", "i", "d", " ", "=", " ", "u", ".", "i", "d">>,
     <<"S", "E", "L", "E", "C", "T", " ", "i", "d", ",", " ", "z", "z", " ", "F", "R", "O", "M", " ", "t", " ", "I", "N", "N", "E", "R", " ", "J", "O", "I", "N", " ", "u", " ", "O", "N", " ", "t", ".", "i", "d", " ", "=", " ", "u", ".", "i", "d">>,
     <<"S", "E", "L", "E", "C", "T", " ", "*", " ", "F", "R", "O", "M", " ", "t", " ", "I", "N", "N", "E", "R", " ", "J", "O", "I", "N", " ", "u", " ", "O", "N", " ", "t", ".", "i", "d", " ", "=", " ", "u", ".", "i", "d", " ", "W", "H", "E", "R", "E", " ", "u", ".", "m", " ", "=", " ", "'", "a", "'">>,
     <<"S", "E", "L", "E", "C", "T", " ", "*", " ", "F", "R", "O", "M", " ", "t", " ", "I", "N", "N", "E", "R", " ", "J", "O", "I", "N", " ", "u", " ", "O", "N", " ", "t", ".", "i", "d", " ", "=", " ", "u", ".", "i", "d", " ", "W", "H", "E", "R", "E", " ", "n", "=", "a">>,
     <<"S", "E", "L", "E", "C", "T", " ", "*", " ", "F", "R", "O", "M", " ", "t", " ", "I", "N", "N", "E", "R", " ", "J", "O", "I", "N", " ", "u", " ", "O", "N", " ", "t", ".", "i", "d", " ", "=", " ", "u", ".", "i", "d", " ", "W", "H", "E", "R", "E", " ", "m">>,
     <<"S", "E", "L", "E", "C", "T", " ", "*", " ", "F", "R", "O", "M", " ", "t", " ", "I", "N", "N", "E", "R", " ", "J", "O", "I", "N", " ", "u", " ", "O", "N", " ", "t", ".", "i", "d", " ", "=", " ", "u", ".", "i", "d", " ", "W", "H", "E", "R", "E", " ", "a", ".", "b", ".", "c", " ", "=", " ", "1">>,
     <<"S", "E", "L", "E", "C", "T", " ", "*", " ", "F", "R", "O", "M", " ", "t", " ", "I", "N", "N", "E", "R", " ", "J", "O", "I", "N", " ", "u", " ", "O", "N", " ", "t", ".", "i", "d", " ", "=", " ", "u", ".", "z", "z">>,
     <<"D", "E", "L", "E", "T", "E", " ", "F", "R", "O", "M", " ", "t", " ", "W", "H", "E", "R", "E", " ", "z", "z", "=", "1">>,
     <<"D", "E", "L", "E", "T", "E", " ", "F", "R", "O", "M", " ", "t", " ", "W", "H", "E", "R", "E", " ", "i", "d">>,
     <<"D", "E", "L", "E", "T", "E", " ", "F", "R", "O", "M", " ", "t", " ", "W", "H", "E", "R", "E", " ", "i", "d", "=", "1">>,
     <<"D", "E", "L", "E", "T", "E", " ", "F", "R", "O", "M", " ", "u">>}

(* parse_sql of every command, computed once *)
QueryParsed == [sql_command \in QueryCommands |-> parse_sql(sql_command)]

QueryInit ==
    /\ files = [x \in {} |-> 0]
    /\ last = [op |-> "init", sql |-> <<>>, parsed |-> Parsed("error", "", <<>>, <<>>), res |-> Ok(0)]

(* a call of a method of the database *)
QueryDo(op, out) ==
    LET o == out
    IN  /\ Bounded(o.files)
        /\ files' = o.files
        /\ last' = [op |-> op, sql |-> <<>>, parsed |-> Parsed("error", "", <<>>, <<>>), res |-> o.res]

QueryCreateTable(t, columns) == QueryDo("create_table", create_table(files, t, columns))

QueryInsert(t, values) == QueryDo("insert", insert(files, t, values))

(* execute, keeping what parse_sql returned *)
QueryExecute(sql_command) ==
    LET parsed == QueryParsed[sql_command]
        o == Dispatch(files, parsed)
    IN  /\ files' = o.files
        /\ last' = [op |-> "execute", sql |-> sql_command, parsed |-> parsed, res |-> o.res]

QueryNext ==
    \/ QueryCreateTable(T, SchemaUQ)
    \/ QueryCreateTable(U, SchemaU)
    \/ \E values \in QueryInsertsT : QueryInsert(T, values)
    \/ \E values \in QueryInsertsU : QueryInsert(U, values)
    \/ \E sql_command \in QueryCommands : QueryExecute(sql_command)

QuerySpec == QueryInit /\ [][QueryNext]_vars

(* the command that led to the next state, as parse_sql returned it *)
Executed(actions) == last'.op = "execute" /\ last'.parsed.action \in actions

ColumnNames(fs, t) == Elements(fs[t].columns)

(* the names, plain and qualified, under which a JOIN can address a column *)
JoinColumnNames(fs, t) == ColumnNames(fs, t) \cup {Qualified(t, c) : c \in ColumnNames(fs, t)}

(* the column list of the command names a column that no table of the      *)
(* command has                                                             *)
NamesAbsentColumn(fs, parsed) ==
    /\ ~parsed.columns.star
    /\ IF parsed.action = "select_join"
       THEN /\ \A i \in 1..2 : table_exists(fs, parsed.tables[i])
            /\ \E c \in Elements(parsed.columns.names) :
                   c \notin JoinColumnNames(fs, parsed.tables[1]) \cup JoinColumnNames(fs, parsed.tables[2])
       ELSE /\ table_exists(fs, parsed.table_name)
            /\ \E c \in Elements(parsed.columns.names) : c \notin ColumnNames(fs, parsed.table_name)

(* C21: a SELECT whose column list names a column absent from the table    *)
(* (for a JOIN: absent from both tables) returns no row list: a SELECT on  *)
(* one table returns the column-not-found error, whatever the table holds. *)
C21_AbsentColumnRejected ==
    [][(Executed({"select_columns", "select_join"}) /\ NamesAbsentColumn(files, last'.parsed))
          => /\ last'.res.kind # "rows"
             /\ last'.parsed.action = "select_columns" => last'.res.kind = "column_not_found"]_vars

(* the two sides of a join condition table.column = table.column *)
JoinSide(join_condition, i) ==
    LET parts == SplitAll(Strip(SplitOnce(join_condition, "=")[i]), ".")
    IN  [table |-> Strip(parts[1]), column |-> Strip(parts[2])]

(* the join condition names one existing column of each of the two tables *)
JoinsTheTables(fs, parsed) ==
    /\ \A i \in 1..2 : table_exists(fs, parsed.tables[i])
    /\ parsed.tables[1] # parsed.tables[2]
    /\ Contains(parsed.join_condition, "=")
    /\ \A i \in 1..2 : Len(SplitAll(Strip(SplitOnce(parsed.join_condition, "=")[i]), ".")) = 2
    /\ {JoinSide(parsed.join_condition, 1).table, JoinSide(parsed.join_condition, 2).table}
           = {parsed.tables[1], parsed.tables[2]}
    /\ \A i \in 1..2 : JoinSide(parsed.join_condition, i).column
                           \in ColumnNames(fs, JoinSide(parsed.join_condition, i).table)

(* the position in table t of the column the join condition names for it *)
JoinColumn(fs, parsed, t) ==
    LET side == IF JoinSide(parsed.join_condition, 1).table = t
                THEN JoinSide(parsed.join_condition, 1) ELSE JoinSide(parsed.join_condition, 2)
    IN  IndexOf(fs[t].columns, side.column)

(* the pairs <<a, b>> of a row of the first table and a row of the second  *)
(* whose join columns hold values with equal string forms                  *)
MatchingPairs(fs, parsed) ==
    LET A == fs[parsed.tables[1]].data
        B == fs[parsed.tables[2]].data
    IN  {p \in (1..Len(A)) \X (1..Len(B)) :
            StringForm(A[p[1]][JoinColumn(fs, parsed, parsed.tables[1])])
                = StringForm(B[p[2]][JoinColumn(fs, parsed, parsed.tables[2])])}

(* the place of pair p among the pairs, ordered by a and then by b *)
Rank(pairs, p) == 1 + Cardinality({q \in pairs : q[1] < p[1] \/ (q[1] = p[1] /\ q[2] < p[2])})

(* C22: for two existing tables and a join condition that names one        *)
(* existing column of each, on either side of the "=", SELECT * with INNER *)
(* JOIN and no WHERE returns one row per pair of a row of the first table  *)
(* and a row of the second whose join values have equal string forms: the  *)
(* values of the first followed by those of the second, ordered by the     *)
(* position of the first and then of the second.                           *)
C22_JoinReturnsMatchingPairs ==
    [][(/\ Executed({"select_join"})
        /\ last'.parsed.columns.star /\ last'.parsed.where.none
        /\ JoinsTheTables(files, last'.parsed))
          => LET pairs == MatchingPairs(files, last'.parsed)
                 A == files[last'.parsed.tables[1]].data
                 B == files[last'.parsed.tables[2]].data
             IN  /\ last'.res.kind = "rows"
                 /\ Len(last'.res.rows) = Cardinality(pairs)
                 /\ \A p \in pairs : last'.res.rows[Rank(pairs, p)] = A[p[1]] \o B[p[2]]
                 /\ files' = files]_vars

(* a JOIN whose condition names the second table first returned two rows,  *)
(* matching a text of one table with an integer of the other               *)
C22_Witness ==
    /\ last.op = "execute" /\ last.parsed.action = "select_join"
    /\ last.parsed.columns.star /\ last.parsed.where.none
    /\ JoinsTheTables(files, last.parsed)
    /\ JoinSide(last.parsed.join_condition, 1).table = last.parsed.tables[2]
    /\ last.res.kind = "rows" /\ Len(last.res.rows) = 2
    /\ \E p \in MatchingPairs(files, last.parsed) :
           files[last.parsed.tables[1]].data[p[1]][JoinColumn(files, last.parsed, last.parsed.tables[1])].k
               # files[last.parsed.tables[2]].data[p[2]][JoinColumn(files, last.parsed, last.parsed.tables[2])].k

(* the tables the command reads or writes exist *)
TablesExist(fs, parsed) ==
    IF parsed.action = "select_join" THEN \A i \in 1..2 : table_exists(fs, parsed.tables[i])
    ELSE table_exists(fs, parsed.table_name)

(* C23: a SELECT, JOIN or DELETE whose WHERE clause holds no "=" returns   *)
(* the malformed-predicate error, returns no rows and changes no table.    *)
C23_MalformedWhereRejected ==
    [][(/\ Executed({"select_all", "select_columns", "select_join", "delete"})
        /\ TablesExist(files, last'.parsed)
        /\ ~last'.parsed.where.none /\ ~Contains(last'.parsed.where.s, "="))
          => (last'.res.kind = "malformed_predicate" /\ files' = files)]_vars

(* C24: every call of execute returns a row list or a status or error      *)
(* text; none ends with an exception.                                      *)
C24_ExecuteNeverRaises == last.op = "execute" => last.res.kind # "raised"

(* the WHERE clause is an equality on a name that is neither a column nor  *)
(* an index of the table                                                   *)
UnknownColumnPredicate(table, where_clause) ==
    /\ ~Falsy(where_clause) /\ Contains(where_clause.s, "=")
    /\ ~HasColumn(table, WhereColumn(where_clause.s))
    /\ WhereColumn(where_clause.s) \notin DOMAIN table.indexes

(* C30: SELECT * with an equality predicate on a name that is neither a    *)
(* column nor an index of the table returns every row of the table, in     *)
(* order, as a row list, and so does select_with_where; DELETE with such a *)
(* predicate returns the column-not-found error and removes nothing.       *)
C30_UnknownWhereColumn ==
    /\ [](\A t \in DOMAIN files :
             select_with_where(files, t, Where(ZZ \o <<"=", "1">>)) = Rows(TRUE, files[t].data))
    /\ [][(/\ Executed({"select_all", "delete"})
           /\ table_exists(files, last'.parsed.table_name)
           /\ UnknownColumnPredicate(files[last'.parsed.table_name], last'.parsed.where))
             => /\ files' = files
                /\ IF last'.parsed.action = "select_all"
                   THEN last'.res = QRows(files[last'.parsed.table_name].data)
                   ELSE last'.res.kind = "where_column_not_found"]_vars

(* a SELECT * with a predicate on an unknown column returned the two rows  *)
(* of the table                                                            *)
C30_Witness ==
    /\ last.op = "execute" /\ last.parsed.action = "select_all"
    /\ table_exists(files, last.parsed.table_name)
    /\ UnknownColumnPredicate(files[last.parsed.table_name], last.parsed.where)
    /\ last.res.kind = "rows" /\ Len(last.res.rows) = 2

----------------------------------------------------------------------------
(* Frame: the calls made on two tables that exist side by side *)

FrameNames == {T, U}

FrameInserts == {<<IntV(1), StrV(<<"a">>)>>, <<IntV(2), StrV(<<"b">>)>>}

FrameUpdates == {<<<<<<N, StrV(<<"b">>)>>>>, Where(<<"i", "d", "=", "1">>)>>,
                 <<<<<<ID, IntV(2)>>>>, NoWhere>>}

FrameClauses == {NoWhere, Where(<<"i", "d", "=", "1">>), Where(<<"z", "z", "=", "1">>)}

FrameNext ==
    \/ CreateTable(T, SchemaPK)
    \/ CreateTable(U, SchemaUQ)
    \/ \E t \in FrameNames, values \in FrameInserts : Insert(t, values)
    \/ \E t \in FrameNames, u \in FrameUpdates : Update(t, u[1], u[2])
    \/ \E t \in FrameNames, w \in FrameClauses : Delete(t, w)
    \/ \E t \in FrameNames, c \in {ID, ZZ} : CreateIndex(t, c)

FrameSpec == Init /\ [][FrameNext]_vars

(* C27: an insert, update, delete or create_index on a table leaves the    *)
(* set of tables as it is, leaves every other table as it is (schema, rows *)
(* and indexes), and leaves the name and the column definitions of its own *)
(* table unchanged and every index of it in place.                         *)
C27_OnlyRowsAndIndexesChange ==
    [][last'.op \in {"insert", "update", "delete", "create_index"}
          => /\ DOMAIN files' = DOMAIN files
             /\ \A t \in DOMAIN files \ {last'.args.table_name} : files'[t] = files[t]
             /\ table_exists(files, last'.args.table_name)
                    => /\ After.name = Before.name
                       /\ After.columns = Before.columns
                       /\ After.column_definitions = Before.column_definitions
                       /\ DOMAIN Before.indexes \subseteq DOMAIN After.indexes]_vars

(* a delete removed a row from a table that has two indexes while the      *)
(* other table holds a row and an index                                    *)
C27_Witness ==
    /\ last.op = "delete" /\ last.res.kind = "ok" /\ last.res.n >= 1
    /\ DOMAIN files = FrameNames
    /\ Cardinality(DOMAIN files[last.args.table_name].indexes) = 2
    /\ \E t \in FrameNames \ {last.args.table_name} :
           files[t].data # <<>> /\ DOMAIN files[t].indexes # {}

----------------------------------------------------------------------------
(* Concurrent callers.  Two callers run insert and update on one table     *)
(* with no lock: each read and each write of the table file is a step of   *)
(* its own, and the steps of the two callers interleave.  Here last maps   *)
(* each caller to its position: the call, the rows it read, the file       *)
(* accesses it still has to make, the documents it holds in memory and the *)
(* value it returns.                                                       *)

Callers == {1, 2}

(* the calls the callers make between them *)
MaxCalls == 3

ConcurrentInserts == {<<IntV(1), StrV(<<"a">>)>>, <<IntV(1), StrV(<<"b">>)>>, <<IntV(2), StrV(<<"a">>)>>}

ConcurrentUpdates == {<<<<<<ID, IntV(2)>>>>, Where(<<"n", "=", "a">>)>>,
                      <<<<<<N, StrV(<<"b">>)>>>>, Where(<<"i", "d", "=", "1">>)>>}

(* a file access a call still has to make *)
Step(kind, operation, col, value, row_index, skip, doc) ==
    [kind |-> kind, operation |-> operation, col |-> col, value |-> value,
     row_index |-> row_index, skip |-> skip, doc |-> doc]

(* _update_index for "insert": get_table_info, then the dump of the        *)
(* patched document                                                        *)
InsertIndexSteps(col, value, row_index) ==
    <<Step("info_read", "insert", col, value, row_index, 1, <<>>),
      Step("info_write", "insert", col, value, row_index, 0, <<>>)>>

(* _update_index for "update": get_table_info, the load and the dump of    *)
(* _create_index, then the dump of the document loaded first               *)
UpdateIndexSteps(col, value, row_index) ==
    <<Step("info_read", "update", col, value, row_index, 3, <<>>),
      Step("build_read", "update", col, value, row_index, 0, <<>>),
      Step("build_write", "update", col, value, row_index, 0, <<>>),
      Step("info_write", "update", col, value, row_index, 0, <<>>)>>

(* the final json.dump(table, f) of insert and update *)
WriteStep(doc) == <<Step("write", "", <<>>, None, 0, 0, <<doc>>)>>

(* a dump that leaves the file as it is *)
Written_keeping(fs, table_name, doc) == fs

(* open(table_file, 'w'); json.dump(doc, f): the document replaces the file *)
Written(fs, table_name, doc) == WriteFile(fs, table_name, doc)

(* the index steps of insert for the key columns from column i on *)
RECURSIVE InsertSteps(_, _, _, _)
InsertSteps(column_defs, typed_values, new_row_index, i) ==
    IF i > Len(column_defs) THEN <<>>
    ELSE (IF IsKeyColumn(column_defs[i])
          THEN InsertIndexSteps(column_defs[i].name, typed_values[i], new_row_index)
          ELSE <<>>) \o InsertSteps(column_defs, typed_values, new_row_index, i + 1)

(* the index steps of update for one row, from item i of update_info on *)
RECURSIVE UpdateItemSteps(_, _, _)
UpdateItemSteps(update_info, row_idx, i) ==
    IF i > Len(update_info) THEN <<>>
    ELSE (IF IsKeyColumn(update_info[i].col_def)
          THEN UpdateIndexSteps(update_info[i].col_def.name, update_info[i].new_val, row_idx)
          ELSE <<>>) \o UpdateItemSteps(update_info, row_idx, i + 1)

(* the index steps of update for the rows (1-based, ascending) it reaches *)
RECURSIVE UpdateSteps(_, _, _)
UpdateSteps(update_info, rows, k) ==
    IF k > Len(rows) THEN <<>>
    ELSE UpdateItemSteps(update_info, rows[k] - 1, 1) \o UpdateSteps(update_info, rows, k + 1)

(* what a call computed in memory: its return value and the document its  *)
(* final dump would write                                                  *)
InMemory(o) == [kind |-> o.res.kind, res |-> o.res, doc |-> o.files[T]]

Idle == [pc |-> "idle", op |-> "", args |-> Args(<<>>, <<>>, <<>>, <<>>, NoWhere, <<>>),
         base |-> <<>>, steps |-> <<>>, info |-> <<>>, built |-> <<>>, res |-> Ok(0), calls |-> 0]

(* the calls made so far by the callers in S *)
RECURSIVE CallsMade(_)
CallsMade(S) == IF S = {} THEN 0
                ELSE LET p == CHOOSE x \in S : TRUE
                     IN  last[p].calls + CallsMade(S \ {p})

(* a caller is free to call when it has made no call or its call returned *)
Free(c) == c.pc \in {"idle", "done"} /\ CallsMade(Callers) < MaxCalls

(* the position of a caller that has loaded the table and made the checks  *)
(* of its call in memory                                                   *)
Started(op, args, base, steps, res) ==
    [pc |-> IF steps = <<>> THEN "done" ELSE "running", op |-> op, args |-> args,
     base |-> base, steps |-> steps, info |-> <<>>, built |-> <<>>, res |-> res, calls |-> 1]

(* the position of a caller of insert whose in-memory part returned o *)
InsertCall(o, base, values) ==
    Started("insert", Args(T, <<>>, values, <<>>, NoWhere, <<>>), base,
            IF IsError(o.res) THEN <<>>
            ELSE InsertSteps(o.files[T].column_definitions, o.files[T].data[Len(base) + 1],
                             Len(base), 1) \o WriteStep(o.files[T]),
            o.res)

(* insert up to its first write: the load of the table, the validation and *)
(* the constraint check on the loaded rows, the row appended in memory     *)
StartInsert(p, values) ==
    /\ Free(last[p])
    /\ table_exists(files, T)
    /\ Len(files[T].data) < MaxRows
    /\ last' = [last EXCEPT ![p] =
           [InsertCall(insert(files, T, values), files[T].data, values)
               EXCEPT !.calls = last[p].calls + 1]]
    /\ UNCHANGED files

(* the rows (1-based, ascending) the predicate of update selects *)
Matched(table, where_clause) ==
    SetToSeq({r \in 1..Len(table.data) :
        \/ Falsy(where_clause)
        \/ RowMatches(table.data[r][ColumnIndex(table.column_definitions,
                                                WhereColumn(where_clause.s)) + 1],
                      WhereValue(where_clause.s))})

(* the position of a caller of update whose in-memory part returned o: the *)
(* row loop ends at the first selected row that violates a constraint, and *)
(* then update returns without its final dump                              *)
UpdateCall(o, table, updates, where_clause) ==
    Started("update", Args(T, <<>>, <<>>, updates, where_clause, <<>>), table.data,
            IF o.kind \notin {"ok", "null_constraint", "unique_constraint"} THEN <<>>
            ELSE IF o.kind = "ok"
            THEN UpdateSteps(UpdateInfo(updates, table.column_definitions),
                             Matched(table, where_clause), 1) \o WriteStep(o.doc)
            ELSE UpdateSteps(UpdateInfo(updates, table.column_definitions),
                             SubSeq(Matched(table, where_clause), 1, o.res.n + 1), 1),
            o.res)

(* update up to its first write: the load of the table, the validation of  *)
(* the SET values and the row loop in memory                               *)
StartUpdate(p, updates, where_clause) ==
    /\ Free(last[p])
    /\ table_exists(files, T)
    /\ last' = [last EXCEPT ![p] =
           [UpdateCall(InMemory(update(files, T, updates, where_clause)), files[T],
                       updates, where_clause)
               EXCEPT !.calls = last[p].calls + 1]]
    /\ UNCHANGED files

(* the position of a caller after the first of its steps *)
After_step(c, steps, info, built) ==
    [c EXCEPT !.pc = IF steps = <<>> THEN "done" ELSE "running",
              !.steps = steps, !.info = info, !.built = built]

(* the document a caller holds, as the only file of a directory *)
Alone(doc) == [x \in {T} |-> doc]

(* get_table_info in _update_index: the caller loads the file; when the    *)
(* column has no index _update_index returns at once                       *)
InfoRead(p) ==
    LET c == last[p]
        s == Head(c.steps)
    IN  /\ c.pc = "running" /\ s.kind = "info_read"
        /\ last' = [last EXCEPT ![p] =
               IF s.col \in DOMAIN files[T].indexes
               THEN After_step(c, Tail(c.steps), <<files[T]>>, c.built)
               ELSE After_step(c, SubSeq(c.steps, s.skip + 2, Len(c.steps)), <<>>, c.built)]
        /\ UNCHANGED files

(* get_table_info in _create_index *)
BuildRead(p) ==
    LET c == last[p]
        s == Head(c.steps)
    IN  /\ c.pc = "running" /\ s.kind = "build_read"
        /\ last' = [last EXCEPT ![p] = After_step(c, Tail(c.steps), c.info, <<files[T]>>)]
        /\ UNCHANGED files

(* the dump of _create_index: the document it loaded, with the index of    *)
(* the column built from the rows of that document                         *)
BuildWrite(p) ==
    LET c == last[p]
        s == Head(c.steps)
    IN  /\ c.pc = "running" /\ s.kind = "build_write"
        /\ files' = Written(files, T,
                        _create_index(Alone(c.built[1]), T, s.col,
                                      c.info[1].indexes[s.col].column_index)[T])
        /\ last' = [last EXCEPT ![p] = After_step(c, Tail(c.steps), c.info, <<>>)]

(* the dump of _update_index: the document it loaded, patched for "insert" *)
(* and as loaded for "update"                                              *)
InfoWrite(p) ==
    LET c == last[p]
        s == Head(c.steps)
    IN  /\ c.pc = "running" /\ s.kind = "info_write"
        /\ files' = Written(files, T,
                        IF s.operation = "insert"
                        THEN _update_index(Alone(c.info[1]), T, s.col, "insert", s.value, s.row_index)[T]
                        ELSE c.info[1])
        /\ last' = [last EXCEPT ![p] = After_step(c, Tail(c.steps), <<>>, c.built)]

(* the final dump of insert and update: the document in memory *)
FinalWrite(p) ==
    LET c == last[p]
        s == Head(c.steps)
    IN  /\ c.pc = "running" /\ s.kind = "write"
        /\ files' = Written(files, T, s.doc[1])
        /\ last' = [last EXCEPT ![p] = After_step(c, Tail(c.steps), <<>>, <<>>)]

ConcurrentInit ==
    /\ \E columns \in Schemas : files = create_table([x \in {} |-> 0], T, columns).files
    /\ last = [p \in Callers |-> Idle]

ConcurrentNext ==
    \/ \E p \in Callers, values \in ConcurrentInserts : StartInsert(p, values)
    \/ \E p \in Callers, u \in ConcurrentUpdates : StartUpdate(p, u[1], u[2])
    \/ \E p \in Callers : InfoRead(p)
    \/ \E p \in Callers : BuildRead(p)
    \/ \E p \in Callers : BuildWrite(p)
    \/ \E p \in Callers : InfoWrite(p)
    \/ \E p \in Callers : FinalWrite(p)

ConcurrentSpec == ConcurrentInit /\ [][ConcurrentNext]_vars

(* the callers whose last call is a successful op that has returned *)
Returned(op) == {p \in Callers : last[p].pc = "done" /\ last[p].op = op /\ last[p].res.kind = "ok"}

(* two callers whose successful inserts loaded the same rows *)
Raced == {pq \in Returned("insert") \X Returned("insert") :
             pq[1] # pq[2] /\ last[pq[1]].base = last[pq[2]].base}

(* C25: with no locking, when two callers' inserts have loaded the same    *)
(* rows and both have returned success, the persisted table holds the rows *)
(* they loaded and the row of one of them only: the other row is lost      *)
C25_ConcurrentInsertsKeepOneRow ==
    \A pq \in Raced :
        \E p \in {pq[1], pq[2]} : files[T].data = Append(last[p].base, last[p].args.values)

(* two inserts of different rows have interleaved and both returned        *)
(* success, and the table holds one row more than they loaded, not two     *)
C25_Witness ==
    \E pq \in Raced :
        /\ last[pq[1]].args.values # last[pq[2]].args.values
        /\ Len(files[T].data) = Len(last[pq[1]].base) + 1
        /\ files[T].data[Len(files[T].data)] \in {last[pq[1]].args.values, last[pq[2]].args.values}

(* the positions (1-based) of the PRIMARY KEY and UNIQUE columns *)
KeyPositions(table) ==
    {i \in 1..Len(table.column_definitions) : IsKeyColumn(table.column_definitions[i])}

(* C28: under every interleaving of the file accesses of concurrent insert *)
(* and update calls, the persisted rows never hold two rows with equal     *)
(* values in a PRIMARY KEY or UNIQUE column                                *)
C28_ConcurrentWritersKeepKeysUnique ==
    \A i \in KeyPositions(files[T]) :
        \A r1, r2 \in 1..Len(files[T].data) :
            r1 # r2 => ~PyEq(files[T].data[r1][i], files[T].data[r2][i])

(* an insert and an update that loaded the same rows have both returned    *)
(* success, the update having set the key of a row to the key the insert   *)
(* added                                                                   *)
C28_Witness ==
    \E p \in Returned("insert"), q \in Returned("update") :
        /\ last[p].base = last[q].base
        /\ last[q].res.n > 0
        /\ \E i \in KeyPositions(files[T]) :
               /\ files[T].column_definitions[i].name = last[q].args.updates[1][1]
               /\ PyEq(last[p].args.values[i], last[q].args.updates[1][2])

====
